---- MODULE Spec2Model ----
(***************************************************************************)
(* kaelo-service: the batch writer (services/batch_writer.go), the device  *)
(* health monitor (services/health_check.go), the message distributor      *)
(* (main.go) and the RabbitMQ consumer with its reconnect handler          *)
(* (services/health_check.go, second half), as state machines.             *)
(*                                                                         *)
(* Each component has its own specification (SpecBatch, SpecHealth,        *)
(* SpecDist, SpecConsumer); the variables of the other components stay     *)
(* unchanged in it.  One atomic action is one critical section or one      *)
(* blocking operation of the code.  Time is a discrete clock.              *)
(***************************************************************************)
EXTENDS Integers, Sequences, FiniteSets, TLC

\* ------------------------------------------------------------------ bounds
MaxBatchSizeCfg == 3
MaxBatchTimeoutCfg == 2
MaxRecords == 3
MaxTime == 4
MaxHcTimeoutCfg == 2
MaxHeartbeats == 3
MaxHcTime == 4
MaxDistRecords == 4
DistChanCap == 2
MaxMsgs == 2
MaxLosses == 1
MqChanCap == 1
MaxGrace == 2
MaxTgTime == 16
MaxTgCalls == 3

\* ------------------------------------------------------- program constants
\* flushBuffer: maxRetries := 3
maxRetries == 3
\* flushBuffer: backoff := time.Duration(attempt) * time.Second (in clock units)
BackoffUnit == 1
\* main: batchWriterChan := make(chan *models.SensorData, 200); the model's
\* producers never offer more than MaxRecords records, so the capacity binds
\* only in the distributor's specification (DistChanCap).
BatchChanCap == 200
\* main: rabbitMQChan := make(chan *models.SensorData, 100)
InboundChanCap == 100
\* main, signal goroutine: case <-time.After(10 * time.Second)
HardTimeout == 10
\* main: batchWriterService.WaitForShutdown(5 * time.Second)
ShutdownGrace == 5
\* connect: maxRetries := 5
connectMaxRetries == 5
\* connect: time.Sleep(time.Duration(attempt) * 2 * time.Second)
ConnectDelayUnit == 2

VARIABLES
  \* ---- batch writer (BatchWriterService)
  maxBatchSize,    \* bw.maxBatchSize (cfg.FirebaseBatchSize)
  batchTimeout,    \* bw.batchTimeout (cfg.FirebaseBatchTimeout), clock units
  now,             \* the clock of the batch writer's specification
  sensorDataChan,  \* the records waiting in the batch writer's input channel
  chanClosed,      \* the input channel was closed by the distributor
  cancelled,       \* ctx.Done() is closed
  nextRec,         \* the identifier of the next record the producer sends
  buffer,          \* bw.buffer
  bwPc,            \* where Start is: "select", "flush", "wait", "after", "done"
  trigger,         \* which branch of Start called flushBuffer
  timerActive,     \* bw.flushTimer is armed and has not fired
  timerDeadline,   \* when the armed timer fires
  timerC,          \* a value waits in bw.flushTimer.C
  flights,         \* the flushBuffer write sequences in progress, by flush number
  shutdownChan,    \* number of values in bw.shutdownChan
  recvd,           \* history: records Start received, with their arrival time
  window,          \* history: records received since the timer was last armed
  flushLog,        \* history: the batches flushBuffer took from the buffer
  writeLog,        \* history: the WriteBatch calls that returned
  wfs,             \* WaitForShutdown: "idle", "waiting", "true", "false"
  wfsDeadline,     \* when WaitForShutdown's time.After(timeout) fires
  doneAt,          \* history: when Start returned after its last flush
  atCancel,        \* history: how many records had been placed on the input
                   \* channel when cancel() was called
  timerHist,       \* history: when the last size or timer flush ended, and
                   \* whether the size branch found the timer already fired
  \* ---- device health monitor (HealthCheckService)
  hcTimeout,       \* cfg.HealthCheckTimeout, clock units
  hcNow,           \* the clock of the health monitor's specification
  devices,         \* h.devices: device id -> DeviceHealth
  hbCount,         \* history: heartbeats received per device
  events,          \* history: the alerts sent per device, in order
  reachedScan,     \* history: first scan since the last heartbeat at which
                   \* the elapsed time had reached the threshold
  exceededScan,    \* history: first scan since the last heartbeat at which
                   \* the elapsed time exceeded the threshold
  hcMu,            \* h.mu: "free", "RLock" (held by GetDeviceHealth) or
                   \* "Lock" (held by a function that is in an alert call)
  rdPc,            \* a caller of GetDeviceHealth: "idle", "locked", "reading",
                   \* "done"
  rdDevice,        \* the device the caller asked for
  rdSnap,          \* the fields the caller has read from the returned record
  rdUnlocked,      \* history: the caller read a field without holding h.mu
  \* ---- message distributor (main)
  rabbitMQChan,      \* the records waiting in the distributor's inbound channel
  distNext,          \* the identifier of the next record the consumer forwards
  distCancelled,     \* ctx.Done() is closed
  distPc,            \* "select", "sendBL", "sendBW", "done", "panic"
  distCur,           \* the record the distributor is sending
  businessLogicChan, \* the records waiting in businessLogicChan
  batchWriterChan,   \* the records waiting in batchWriterChan
  closedChans,       \* the outbound channels that were closed
  outcome,           \* history: per record taken, what happened at each sink
  blReceived,        \* history: what the business logic processor received
  bwReceived,        \* history: what the batch writer received
  \* ---- RabbitMQ consumer (RabbitMQService) and the broker
  brokerUp,        \* amqp.Dial succeeds
  openConns,       \* the connections (with their channel) that are open
  connCount,       \* connections dialled so far; the newest is connCount
  losses,          \* history: unexpected connection losses so far
  rConn,           \* r.conn
  rChannel,        \* r.channel
  isClosing,       \* r.isClosing
  mqCancelled,     \* ctx.Done() is closed
  handlers,        \* the handleReconnect goroutines: [pc, watch]
  consPc,          \* Consume: "consume", "select", "process", "sleep",
                   \* "returnedErr", "stopped"
  msgsConn,        \* the connection of the msgs subscription of Consume
  curMsg,          \* the delivery Consume is processing
  curConn,         \* the connection that delivery came on
  queue,           \* the broker's queue: message -> [state, acks]
  forwarded,       \* history: the set of records put on the processing channel
  mqSensorDataChan, \* the records waiting in Consume's sensorDataChan
  lastErr,         \* history: what processMessage returned for curMsg
  lastVerdict,     \* history: what Consume issued for curMsg
  redelivery,      \* history: curMsg is the message Consume rejected last
  \* ---- process shutdown (main and its signal goroutine)
  sigPc,           \* signal goroutine: "idle", "select", "exit"
  mainPc,          \* main: "running", "waitForShutdown", "closeRabbitMQ",
                   \* "closeFirebase", "returning", "returned"
  shElapsed,       \* seconds since cancel()
  graceDeadline,   \* when main's WaitForShutdown(5 s) gives up
  cleanupDone,     \* number of values in cleanupDone
  exited,          \* "no", or why the process ended
  \* ---- startup (main, NewRabbitMQService, connect)
  stPc,            \* "dial", "sleep", "setup", "connected", "failed",
                   \* "returned", "fatal", "started"
  stAttempt,       \* connect: attempt
  stSleepLeft,     \* seconds left of connect's time.Sleep
  stStage,         \* connect: which call after the dial is next
  stErr,           \* the call whose error connect returned, or "nil"
  stService,       \* NewRabbitMQService returned a service
  stDelays,        \* history: the delays connect slept, in order
  tasksStarted,    \* main started the consumer, distributor and batch tasks
  \* ---- anomaly alerts (TelegramService)
  tgNow,               \* the clock of the alert specification, seconds
  tgCalls,             \* number of SendAnomalyAlert calls made
  lastAlertTimes,      \* ts.lastAlertTimes: device -> time, or NoAlert
  lastFlameAlertTimes, \* ts.lastFlameAlertTimes: device -> time, or NoAlert
  tgSent,              \* history: per device and kind, when the last alert
                       \* was sent successfully
  tgLast               \* history: the last call and what it did

wfsVars == <<wfs, wfsDeadline, doneAt, timerHist, atCancel>>

bwVars == <<maxBatchSize, batchTimeout, now, sensorDataChan, chanClosed,
            cancelled, nextRec, buffer, bwPc, trigger, timerActive,
            timerDeadline, timerC, flights, shutdownChan, recvd, window,
            flushLog, writeLog, wfsVars>>

rdVars == <<hcMu, rdPc, rdDevice, rdSnap, rdUnlocked>>

hcVars == <<hcTimeout, hcNow, devices, hbCount, events, reachedScan,
            exceededScan, rdVars>>

distVars == <<rabbitMQChan, distNext, distCancelled, distPc, distCur,
              businessLogicChan, batchWriterChan, closedChans, outcome,
              blReceived, bwReceived>>

mqVars == <<brokerUp, openConns, connCount, losses, rConn, rChannel,
            isClosing, mqCancelled, handlers, consPc, msgsConn, curMsg,
            curConn, queue, forwarded, mqSensorDataChan, lastErr,
            lastVerdict, redelivery>>

stVars == <<stPc, stAttempt, stSleepLeft, stStage, stErr, stService,
            stDelays, tasksStarted>>

tgVars == <<tgNow, tgCalls, lastAlertTimes, lastFlameAlertTimes, tgSent,
            tgLast>>

shVars == <<sigPc, mainPc, shElapsed, graceDeadline, cleanupDone, exited,
            stVars, tgVars>>

vars == <<bwVars, hcVars, distVars, mqVars, shVars>>

\* ------------------------------------------------------------ helpers
Ids(s) == [i \in 1..Len(s) |-> s[i].id]

Range(s) == {s[i] : i \in 1..Len(s)}

RemoveKey(f, k) == [x \in (DOMAIN f) \ {k} |-> f[x]]

\* ============================================================ batch writer

\* Start has not returned (history only).
NotDone == -1

\* NewBatchWriterService and the first statement of Start (time.NewTimer),
\* for a configuration drawn from sizes and timeouts.
BwInit(sizes, timeouts) ==
  /\ maxBatchSize \in sizes
  /\ batchTimeout \in timeouts
  /\ now = 0
  /\ sensorDataChan = <<>>
  /\ chanClosed = FALSE
  /\ cancelled = FALSE
  /\ nextRec = 1
  /\ buffer = <<>>
  /\ bwPc = "select"
  /\ trigger = "none"
  /\ timerActive = TRUE
  /\ timerDeadline = batchTimeout
  /\ timerC = FALSE
  /\ flights = <<>>
  /\ shutdownChan = 0
  /\ recvd = <<>>
  /\ window = <<>>
  /\ flushLog = <<>>
  /\ writeLog = <<>>
  /\ wfs = "idle"
  /\ wfsDeadline = 0
  /\ doneAt = NotDone
  /\ timerHist = [flushEnd |-> NotDone, drained |-> FALSE]
  /\ atCancel = NotDone

\* The clock advances; an armed timer whose deadline is reached puts a value
\* into its channel.  WaitForShutdown's select returns as soon as one of its
\* cases is ready: the clock does not advance while it waits with a value in
\* bw.shutdownChan or with its time.After deadline reached.
Tick ==
  /\ now < MaxTime
  /\ ~(wfs = "waiting" /\ (shutdownChan > 0 \/ now >= wfsDeadline))
  /\ now' = now + 1
  /\ IF timerActive /\ now + 1 >= timerDeadline
       THEN timerC' = TRUE /\ timerActive' = FALSE
       ELSE UNCHANGED <<timerC, timerActive>>
  /\ UNCHANGED <<hcVars, distVars, mqVars, shVars, wfsVars>>
  /\ UNCHANGED <<maxBatchSize, batchTimeout, sensorDataChan, chanClosed,
                 cancelled, nextRec, buffer, bwPc, trigger, timerDeadline,
                 flights, shutdownChan, recvd, window, flushLog, writeLog>>

\* main's distributor: batchWriterChan <- sensorData.
Produce ==
  /\ ~chanClosed
  /\ nextRec <= MaxRecords
  /\ Len(sensorDataChan) < BatchChanCap
  /\ sensorDataChan' = Append(sensorDataChan, nextRec)
  /\ nextRec' = nextRec + 1
  /\ UNCHANGED <<hcVars, distVars, mqVars, shVars, wfsVars>>
  /\ UNCHANGED <<maxBatchSize, batchTimeout, now, chanClosed, cancelled,
                 buffer, bwPc, trigger, timerActive, timerDeadline, timerC,
                 flights, shutdownChan, recvd, window, flushLog, writeLog>>

\* main's signal goroutine: cancel().
Cancel ==
  /\ ~cancelled
  /\ cancelled' = TRUE
  /\ UNCHANGED <<hcVars, distVars, mqVars, shVars, wfsVars>>
  /\ UNCHANGED <<maxBatchSize, batchTimeout, now, sensorDataChan, chanClosed,
                 nextRec, buffer, bwPc, trigger, timerActive, timerDeadline,
                 timerC, flights, shutdownChan, recvd, window, flushLog,
                 writeLog>>

\* cancel(), with the number of records placed on the input channel so far
\* kept for the history.
CancelRecorded ==
  /\ ~cancelled
  /\ cancelled' = TRUE
  /\ atCancel' = nextRec - 1
  /\ UNCHANGED <<hcVars, distVars, mqVars, shVars, wfs, wfsDeadline, doneAt,
                 timerHist>>
  /\ UNCHANGED <<maxBatchSize, batchTimeout, now, sensorDataChan, chanClosed,
                 nextRec, buffer, bwPc, trigger, timerActive, timerDeadline,
                 timerC, flights, shutdownChan, recvd, window, flushLog,
                 writeLog>>

\* main's distributor on ctx.Done(): close(batchWriterChan).
CloseChan ==
  /\ cancelled
  /\ ~chanClosed
  /\ chanClosed' = TRUE
  /\ UNCHANGED <<hcVars, distVars, mqVars, shVars, wfsVars>>
  /\ UNCHANGED <<maxBatchSize, batchTimeout, now, sensorDataChan, cancelled,
                 nextRec, buffer, bwPc, trigger, timerActive, timerDeadline,
                 timerC, flights, shutdownChan, recvd, window, flushLog,
                 writeLog>>

\* Start, case <-ctx.Done(): flushBuffer is called for the shutdown.
StartCtxDone ==
  /\ bwPc = "select"
  /\ cancelled
  /\ bwPc' = "flush"
  /\ trigger' = "shutdown"
  /\ UNCHANGED <<hcVars, distVars, mqVars, shVars, wfsVars>>
  /\ UNCHANGED <<maxBatchSize, batchTimeout, now, sensorDataChan, chanClosed,
                 cancelled, nextRec, buffer, timerActive, timerDeadline,
                 timerC, flights, shutdownChan, recvd, window, flushLog,
                 writeLog>>

\* Start, case sensorData, ok := <-sensorDataChan with !ok.
StartChanClosed ==
  /\ bwPc = "select"
  /\ chanClosed
  /\ sensorDataChan = <<>>
  /\ bwPc' = "flush"
  /\ trigger' = "closed"
  /\ UNCHANGED <<hcVars, distVars, mqVars, shVars, wfsVars>>
  /\ UNCHANGED <<maxBatchSize, batchTimeout, now, sensorDataChan, chanClosed,
                 cancelled, nextRec, buffer, timerActive, timerDeadline,
                 timerC, flights, shutdownChan, recvd, window, flushLog,
                 writeLog>>

\* if currentSize >= bw.maxBatchSize
BufferFull_Strict(currentSize, max) == currentSize > max

BufferFull(currentSize, max) == currentSize >= max

\* What the size branch leaves in the timer's channel:
\* if !bw.flushTimer.Stop() { select { case <-bw.flushTimer.C: default: } }
DrainedTimerC_Stale(c) == c

DrainedTimerC(c) == FALSE

\* Start, case sensorData, ok := <-sensorDataChan with ok: the append under
\* the lock, the size test, and on a full buffer the timer's Stop and drain.
StartReceive ==
  /\ bwPc = "select"
  /\ sensorDataChan # <<>>
  /\ LET r == Head(sensorDataChan)
         currentSize == Len(buffer) + 1
     IN /\ sensorDataChan' = Tail(sensorDataChan)
        /\ buffer' = Append(buffer, r)
        /\ recvd' = Append(recvd, [id |-> r, at |-> now])
        /\ window' = Append(window, r)
        /\ IF BufferFull(currentSize, maxBatchSize)
             THEN /\ timerActive' = FALSE
                  /\ timerC' = DrainedTimerC(timerC)
                  /\ timerHist' = [timerHist EXCEPT !.drained = timerC]
                  /\ bwPc' = "flush"
                  /\ trigger' = "size"
             ELSE UNCHANGED <<timerActive, timerC, bwPc, trigger, timerHist>>
  /\ UNCHANGED <<hcVars, distVars, mqVars, shVars, wfs, wfsDeadline, doneAt,
                 atCancel>>
  /\ UNCHANGED <<maxBatchSize, batchTimeout, now, chanClosed, cancelled,
                 nextRec, timerDeadline, flights, shutdownChan, flushLog,
                 writeLog>>

\* if currentSize > 0 (the timer branch flushes only a non-empty buffer)
TimerFlushNeeded_AtLeastTwo(currentSize) == currentSize > 1

TimerFlushNeeded(currentSize) == currentSize > 0

\* Start, case <-bw.flushTimer.C: flush when the buffer is not empty,
\* otherwise only Reset the timer.
StartTimer ==
  /\ bwPc = "select"
  /\ timerC
  /\ timerC' = FALSE
  /\ IF TimerFlushNeeded(Len(buffer))
       THEN /\ bwPc' = "flush"
            /\ trigger' = "timer"
            /\ UNCHANGED <<timerActive, timerDeadline, window>>
       ELSE /\ timerActive' = TRUE
            /\ timerDeadline' = now + batchTimeout
            /\ window' = <<>>
            /\ UNCHANGED <<bwPc, trigger>>
  /\ UNCHANGED <<hcVars, distVars, mqVars, shVars, wfsVars>>
  /\ UNCHANGED <<maxBatchSize, batchTimeout, now, sensorDataChan, chanClosed,
                 cancelled, nextRec, buffer, flights, shutdownChan, recvd,
                 flushLog, writeLog>>

\* Where Start is while flushBuffer writes: flushBuffer is an ordinary call,
\* Start waits for it to return.
PcWhileWriting_Async == "after"

PcWhileWriting == "wait"

\* What flushBuffer leaves in the buffer: bw.buffer = bw.buffer[:0].
ClearedBuffer_Kept(buf) == buf

ClearedBuffer(buf) == <<>>

\* if len(bw.buffer) == 0 { bw.bufferMutex.Unlock(); return }
NothingToFlush_Never(buf) == FALSE

NothingToFlush(buf) == Len(buf) = 0

\* batch := make([]*models.SensorData, len(bw.buffer)); copy(batch, bw.buffer)
\* is executed before the buffer is cleared: batch holds what the buffer held.
BatchCopy_AfterClear(buf) == ClearedBuffer(buf)

BatchCopy(buf) == buf

\* flushBuffer, the critical section: return on an empty buffer, otherwise
\* copy the buffer into batch and clear it.
FlushBufferSwap ==
  /\ bwPc = "flush"
  /\ IF NothingToFlush(buffer)
       THEN /\ bwPc' = "after"
            /\ UNCHANGED <<buffer, flights, flushLog>>
       ELSE LET fid == Len(flushLog) + 1
            IN /\ flights' = (fid :> [batch |-> BatchCopy(buffer),
                                      attempt |-> 1, phase |-> "write",
                                      wakeAt |-> 0, failedAt |-> 0])
                             @@ flights
               /\ flushLog' = Append(flushLog,
                                [batch |-> buffer, trigger |-> trigger,
                                 window |-> window])
               /\ buffer' = ClearedBuffer(buffer)
               /\ bwPc' = PcWhileWriting
  /\ UNCHANGED <<hcVars, distVars, mqVars, shVars, wfsVars>>
  /\ UNCHANGED <<maxBatchSize, batchTimeout, now, sensorDataChan, chanClosed,
                 cancelled, nextRec, trigger, timerActive, timerDeadline,
                 timerC, shutdownChan, recvd, window, writeLog>>

\* if attempt < maxRetries: another attempt follows a failed one.
RetryAgain_Always(attempt) == TRUE

RetryAgain(attempt) == attempt < maxRetries

\* backoff := time.Duration(attempt) * time.Second
Backoff_Constant(attempt) == BackoffUnit

Backoff(attempt) == attempt * BackoffUnit

\* flushBuffer: one WriteBatch call returns, with success or with an error.
\* Success and the last failure end flushBuffer; any other failure starts
\* the back-off sleep.
WriteBatchReturns(f, ok) ==
  /\ f \in DOMAIN flights
  /\ flights[f].phase = "write"
  /\ writeLog' = Append(writeLog, [fid |-> f, attempt |-> flights[f].attempt,
                                   batch |-> flights[f].batch, ok |-> ok])
  /\ IF ~ok /\ RetryAgain(flights[f].attempt)
       THEN /\ flights' = [flights EXCEPT
                 ![f].phase = "sleep",
                 ![f].wakeAt = now + Backoff(flights[f].attempt),
                 ![f].failedAt = now]
            /\ UNCHANGED bwPc
       ELSE /\ flights' = RemoveKey(flights, f)
            /\ bwPc' = IF bwPc = "wait" THEN "after" ELSE bwPc
  /\ UNCHANGED <<hcVars, distVars, mqVars, shVars, wfsVars>>
  /\ UNCHANGED <<maxBatchSize, batchTimeout, now, sensorDataChan, chanClosed,
                 cancelled, nextRec, buffer, trigger, timerActive,
                 timerDeadline, timerC, shutdownChan, recvd, window, flushLog>>

\* flushBuffer: time.Sleep(backoff) returns and the next attempt starts.
BackoffDone(f) ==
  /\ f \in DOMAIN flights
  /\ flights[f].phase = "sleep"
  /\ now >= flights[f].wakeAt
  /\ flights' = [flights EXCEPT ![f].phase = "write",
                                ![f].attempt = flights[f].attempt + 1]
  /\ UNCHANGED <<hcVars, distVars, mqVars, shVars, wfsVars>>
  /\ UNCHANGED <<maxBatchSize, batchTimeout, now, sensorDataChan, chanClosed,
                 cancelled, nextRec, buffer, bwPc, trigger, timerActive,
                 timerDeadline, timerC, shutdownChan, recvd, window, flushLog,
                 writeLog>>

\* Start after flushBuffer returned: Reset the timer and select again (size
\* and timer flush), send on shutdownChan and return (shutdown), return
\* (closed input channel).
AfterFlush ==
  /\ bwPc = "after"
  /\ IF trigger \in {"size", "timer"}
       THEN /\ timerActive' = TRUE
            /\ timerDeadline' = now + batchTimeout
            /\ window' = <<>>
            /\ bwPc' = "select"
            /\ timerHist' = [timerHist EXCEPT !.flushEnd = now]
            /\ UNCHANGED <<shutdownChan, doneAt>>
       ELSE /\ shutdownChan' = IF trigger = "shutdown" THEN shutdownChan + 1
                                                       ELSE shutdownChan
            /\ bwPc' = "done"
            /\ doneAt' = now
            /\ UNCHANGED <<timerActive, timerDeadline, window, timerHist>>
  /\ UNCHANGED <<hcVars, distVars, mqVars, shVars, wfs, wfsDeadline,
                 atCancel>>
  /\ UNCHANGED <<maxBatchSize, batchTimeout, now, sensorDataChan, chanClosed,
                 cancelled, nextRec, buffer, trigger, timerC, flights,
                 recvd, flushLog, writeLog>>

\* main after <-ctx.Done(): batchWriterService.WaitForShutdown(timeout)
\* starts its select; time.After(timeout) is armed.
WaitForShutdownCall(timeout) ==
  /\ cancelled
  /\ wfs = "idle"
  /\ wfs' = "waiting"
  /\ wfsDeadline' = now + timeout
  /\ UNCHANGED <<hcVars, distVars, mqVars, shVars, doneAt, timerHist,
                 atCancel>>
  /\ UNCHANGED <<maxBatchSize, batchTimeout, now, sensorDataChan, chanClosed,
                 cancelled, nextRec, buffer, bwPc, trigger, timerActive,
                 timerDeadline, timerC, flights, shutdownChan, recvd, window,
                 flushLog, writeLog>>

\* WaitForShutdown, case <-bw.shutdownChan: return true.
WaitForShutdownSignalled ==
  /\ wfs = "waiting"
  /\ shutdownChan > 0
  /\ shutdownChan' = shutdownChan - 1
  /\ wfs' = "true"
  /\ UNCHANGED <<hcVars, distVars, mqVars, shVars, wfsDeadline, doneAt,
                 timerHist, atCancel>>
  /\ UNCHANGED <<maxBatchSize, batchTimeout, now, sensorDataChan, chanClosed,
                 cancelled, nextRec, buffer, bwPc, trigger, timerActive,
                 timerDeadline, timerC, flights, recvd, window, flushLog,
                 writeLog>>

\* WaitForShutdown, case <-time.After(timeout): return false.
WaitForShutdownTimedOut ==
  /\ wfs = "waiting"
  /\ now >= wfsDeadline
  /\ wfs' = "false"
  /\ UNCHANGED <<hcVars, distVars, mqVars, shVars, wfsDeadline, doneAt,
                 timerHist, atCancel>>
  /\ UNCHANGED <<maxBatchSize, batchTimeout, now, sensorDataChan, chanClosed,
                 cancelled, nextRec, buffer, bwPc, trigger, timerActive,
                 timerDeadline, timerC, flights, shutdownChan, recvd, window,
                 flushLog, writeLog>>

BwNext ==
  \/ Tick
  \/ Produce
  \/ Cancel
  \/ CloseChan
  \/ StartCtxDone
  \/ StartChanClosed
  \/ StartReceive
  \/ StartTimer
  \/ FlushBufferSwap
  \/ \E f \in DOMAIN flights : \E ok \in BOOLEAN : WriteBatchReturns(f, ok)
  \/ \E f \in DOMAIN flights : BackoffDone(f)
  \/ AfterFlush

\* The batch writer with the history of what was placed before cancel().
BwRecordedNext ==
  \/ Tick
  \/ Produce
  \/ CancelRecorded
  \/ CloseChan
  \/ StartCtxDone
  \/ StartChanClosed
  \/ StartReceive
  \/ StartTimer
  \/ FlushBufferSwap
  \/ \E f \in DOMAIN flights : \E ok \in BOOLEAN : WriteBatchReturns(f, ok)
  \/ \E f \in DOMAIN flights : BackoffDone(f)
  \/ AfterFlush

\* The steps of the Start goroutine outside flushBuffer's write loop.
StartStep ==
  \/ StartCtxDone
  \/ StartChanClosed
  \/ StartReceive
  \/ StartTimer
  \/ FlushBufferSwap
  \/ AfterFlush

\* The batch writer together with main's wait for its shutdown.
ShutdownNext ==
  \/ BwNext
  \/ \E timeout \in 1..MaxGrace : WaitForShutdownCall(timeout)
  \/ WaitForShutdownSignalled
  \/ WaitForShutdownTimedOut


\* ===================================================== device health monitor

Devices == {"D1", "D2"}

\* models.DeviceHealthStatus
DeviceHealthy == "healthy"

DeviceTimeout == "timeout"

DeviceRecovered == "recovered"

\* The zero time.Time of a DeviceHealth.TimeoutAt that was never set.
ZeroTime == -1

\* No scan of the kind recorded yet (history only).
NoScan == -1

\* NewHealthCheckService: an empty registry, for a configured timeout drawn
\* from timeouts.
HcInit(timeouts) ==
  /\ hcTimeout \in timeouts
  /\ hcNow = 0
  /\ devices = <<>>
  /\ hbCount = [d \in Devices |-> 0]
  /\ events = [d \in Devices |-> <<>>]
  /\ reachedScan = [d \in Devices |-> NoScan]
  /\ exceededScan = [d \in Devices |-> NoScan]
  /\ hcMu = "free"
  /\ rdPc = "idle"
  /\ rdDevice = "D1"
  /\ rdSnap = <<>>
  /\ rdUnlocked = FALSE

HcTick ==
  /\ hcNow < MaxHcTime
  /\ hcNow' = hcNow + 1
  /\ UNCHANGED <<hcTimeout, devices, hbCount, events, reachedScan,
                 exceededScan>>
  /\ UNCHANGED <<bwVars, distVars, mqVars, shVars, rdVars>>

\* updateHealthCheck: device.Status = models.DeviceHealthy
StatusAfterHeartbeat_Recovered(wasTimeout) ==
  IF wasTimeout THEN DeviceRecovered ELSE DeviceHealthy

StatusAfterHeartbeat(wasTimeout) == DeviceHealthy

\* updateHealthCheck: downDuration := now.Sub(device.TimeoutAt)
DownDuration_FromLastSeen(t, device) == t - device.LastSeen

DownDuration(t, device) == t - device.TimeoutAt

\* The nil *HealthCheckData; the heartbeats of a device are numbered from 1.
NoHeartbeat == 0

\* updateHealthCheck: device.LastHealthCheck = data
RecordedHeartbeat_Nil(data) == NoHeartbeat

RecordedHeartbeat(data) == data

\* updateHealthCheck(data) for a heartbeat of device d, from h.mu.Lock() to
\* the call of SendHealthCheckRecoveryAlert, whose result is ok.
updateHealthCheckSteps(d, ok) ==
  /\ hcMu = "free"
  /\ hbCount[d] < MaxHeartbeats
  /\ LET exists == d \in DOMAIN devices
         device == IF exists THEN devices[d]
                   ELSE [Status |-> DeviceHealthy,
                         LastHealthCheck |-> NoHeartbeat,
                         LastSeen |-> ZeroTime, TimeoutAt |-> ZeroTime]
         wasTimeout == device.Status = DeviceTimeout
         updated == [device EXCEPT !.LastHealthCheck =
                                     RecordedHeartbeat(hbCount[d] + 1),
                                   !.LastSeen = hcNow,
                                   !.Status = StatusAfterHeartbeat(wasTimeout)]
     IN /\ (~wasTimeout => ok)
        /\ devices' = (d :> updated) @@ devices
        /\ events' = IF wasTimeout
             THEN [events EXCEPT ![d] = Append(@,
                     [kind |-> "Recovered", at |-> hcNow,
                      down |-> DownDuration(hcNow, updated),
                      expiredAt |-> device.LastSeen + hcTimeout,
                      hb |-> hbCount[d] + 1, ok |-> ok])]
             ELSE events
  /\ hbCount' = [hbCount EXCEPT ![d] = @ + 1]
  /\ reachedScan' = [reachedScan EXCEPT ![d] = NoScan]
  /\ exceededScan' = [exceededScan EXCEPT ![d] = NoScan]
  /\ UNCHANGED <<hcTimeout, hcNow>>
  /\ UNCHANGED <<bwVars, distVars, mqVars, shVars>>

\* updateHealthCheck, the whole critical section with an alert call that
\* returns at once; the deferred h.mu.Unlock() ends it.
updateHealthCheck(d, ok) ==
  /\ updateHealthCheckSteps(d, ok)
  /\ UNCHANGED rdVars

\* checkTimeouts: if device.Status == models.DeviceTimeout { continue }
AlreadyTimedOut_Never(device) == FALSE

AlreadyTimedOut(device) == device.Status = DeviceTimeout

\* checkTimeouts: if timeSinceLastSeen > timeoutDuration
TimedOut_AtThreshold(timeSinceLastSeen, timeoutDuration) ==
  timeSinceLastSeen >= timeoutDuration

TimedOut(timeSinceLastSeen, timeoutDuration) ==
  timeSinceLastSeen > timeoutDuration

\* checkTimeouts: device.Status = models.DeviceTimeout, assigned before the
\* alert is sent and kept whatever the send returns.
MarkedStatus_OnlyIfSent(ok) == IF ok THEN DeviceTimeout ELSE DeviceHealthy

MarkedStatus(ok) == DeviceTimeout

\* The devices one scan at the current time marks as timed out.
TimingOut ==
  {d \in DOMAIN devices :
     /\ ~AlreadyTimedOut(devices[d])
     /\ TimedOut(hcNow - devices[d].LastSeen, hcTimeout)}

\* checkTimeouts, one scan from h.mu.Lock() on; okf gives the result of
\* SendHealthCheckTimeoutAlert for each device the scan marks.
checkTimeoutsSteps(okf) ==
  /\ hcMu = "free"
  /\ devices # <<>>
  /\ devices' = [d \in DOMAIN devices |->
                   IF d \in TimingOut
                     THEN [devices[d] EXCEPT !.Status = MarkedStatus(okf[d]),
                                             !.TimeoutAt = hcNow]
                     ELSE devices[d]]
  /\ events' = [d \in Devices |->
                  IF d \in TimingOut
                    THEN Append(events[d],
                           [kind |-> "Timeout", at |-> hcNow,
                            down |-> hcNow - devices[d].LastSeen,
                            expiredAt |-> devices[d].LastSeen + hcTimeout,
                            hb |-> devices[d].LastHealthCheck, ok |-> okf[d]])
                    ELSE events[d]]
  /\ reachedScan' = [d \in Devices |->
                       IF /\ d \in DOMAIN devices
                          /\ reachedScan[d] = NoScan
                          /\ hcNow - devices[d].LastSeen >= hcTimeout
                         THEN hcNow ELSE reachedScan[d]]
  /\ exceededScan' = [d \in Devices |->
                        IF /\ d \in DOMAIN devices
                           /\ exceededScan[d] = NoScan
                           /\ hcNow - devices[d].LastSeen > hcTimeout
                          THEN hcNow ELSE exceededScan[d]]
  /\ UNCHANGED <<hcTimeout, hcNow, hbCount>>
  /\ UNCHANGED <<bwVars, distVars, mqVars, shVars>>

\* checkTimeouts, one whole scan under the lock with alert calls that return
\* at once; the deferred h.mu.Unlock() ends it.
checkTimeouts(okf) ==
  /\ checkTimeoutsSteps(okf)
  /\ UNCHANGED rdVars

HcNext ==
  \/ HcTick
  \/ \E d \in Devices : \E ok \in BOOLEAN : updateHealthCheck(d, ok)
  \/ \E okf \in [TimingOut -> BOOLEAN] : checkTimeouts(okf)

\* GetDeviceHealth: h.mu.RLock(); updateHealthCheck and checkTimeouts wait
\* for the lock while it is held.
GetDeviceHealthLock(d) ==
  /\ rdPc = "idle"
  /\ hcMu = "free"
  /\ hcMu' = "RLock"
  /\ rdPc' = "locked"
  /\ rdDevice' = d
  /\ UNCHANGED <<rdSnap, rdUnlocked>>
  /\ UNCHANGED <<hcTimeout, hcNow, devices, hbCount, events, reachedScan,
                 exceededScan>>
  /\ UNCHANGED <<bwVars, distVars, mqVars, shVars>>

\* GetDeviceHealth: device, exists := h.devices[deviceID]; return device,
\* exists (the pointer to the record in the registry), and the deferred
\* h.mu.RUnlock().
GetDeviceHealthReturn ==
  /\ rdPc = "locked"
  /\ hcMu' = "free"
  /\ rdPc' = IF rdDevice \in DOMAIN devices THEN "reading" ELSE "done"
  /\ UNCHANGED <<rdDevice, rdSnap, rdUnlocked>>
  /\ UNCHANGED <<hcTimeout, hcNow, devices, hbCount, events, reachedScan,
                 exceededScan>>
  /\ UNCHANGED <<bwVars, distVars, mqVars, shVars>>

\* The fields of the returned record the caller reads.
ReadFields == {"Status", "TimeoutAt"}

\* The caller of GetDeviceHealth reads one more field through the returned
\* pointer, in any order.
CallerReads(f) ==
  /\ rdPc = "reading"
  /\ f \in ReadFields \ DOMAIN rdSnap
  /\ rdSnap' = (f :> devices[rdDevice][f]) @@ rdSnap
  /\ rdUnlocked' = (rdUnlocked \/ hcMu # "RLock")
  /\ rdPc' = IF DOMAIN rdSnap' = ReadFields THEN "done" ELSE "reading"
  /\ UNCHANGED <<hcMu, rdDevice>>
  /\ UNCHANGED <<hcTimeout, hcNow, devices, hbCount, events, reachedScan,
                 exceededScan>>
  /\ UNCHANGED <<bwVars, distVars, mqVars, shVars>>

\* updateHealthCheck with an alert call that takes time: the function is
\* inside SendHealthCheckRecoveryAlert, h.mu stays locked until it returns.
updateHealthCheckCalls(d, ok) ==
  /\ updateHealthCheckSteps(d, ok)
  /\ hcMu' = IF d \in DOMAIN devices /\ devices[d].Status = DeviceTimeout
               THEN "Lock" ELSE hcMu
  /\ UNCHANGED <<rdPc, rdDevice, rdSnap, rdUnlocked>>

\* checkTimeouts with alert calls that take time: the scan is inside
\* SendHealthCheckTimeoutAlert, h.mu stays locked until the scan returns.
checkTimeoutsCalls(okf) ==
  /\ checkTimeoutsSteps(okf)
  /\ hcMu' = IF TimingOut # {} THEN "Lock" ELSE hcMu
  /\ UNCHANGED <<rdPc, rdDevice, rdSnap, rdUnlocked>>

\* The alert call (the last one of a scan) returns, the error if any is
\* logged, and the deferred h.mu.Unlock() runs.
AlertCallReturns ==
  /\ hcMu = "Lock"
  /\ hcMu' = "free"
  /\ UNCHANGED <<rdPc, rdDevice, rdSnap, rdUnlocked>>
  /\ UNCHANGED <<hcTimeout, hcNow, devices, hbCount, events, reachedScan,
                 exceededScan>>
  /\ UNCHANGED <<bwVars, distVars, mqVars, shVars>>

\* A heartbeat is handled / a scan runs.
HeartbeatHandled ==
  \E d \in Devices : \E ok \in BOOLEAN : updateHealthCheckCalls(d, ok)

ScanRuns == \E okf \in [TimingOut -> BOOLEAN] : checkTimeoutsCalls(okf)

\* The health monitor with alert calls that take time.
HcSinkNext ==
  \/ HcTick
  \/ HeartbeatHandled
  \/ ScanRuns
  \/ AlertCallReturns

\* The health monitor together with a caller of GetDeviceHealth.
HcReaderNext ==
  \/ HcNext
  \/ \E d \in Devices : GetDeviceHealthLock(d)
  \/ GetDeviceHealthReturn
  \/ \E f \in ReadFields : CallerReads(f)


\* ====================================================== message distributor

\* main: the channels are created empty, the distributor starts at its select.
DistInit ==
  /\ rabbitMQChan = <<>>
  /\ distNext = 1
  /\ distCancelled = FALSE
  /\ distPc = "select"
  /\ distCur = 0
  /\ businessLogicChan = <<>>
  /\ batchWriterChan = <<>>
  /\ closedChans = {}
  /\ outcome = <<>>
  /\ blReceived = <<>>
  /\ bwReceived = <<>>

\* The consumer's processMessage: sensorDataChan <- &sensorData.
DistInbound ==
  /\ distNext <= MaxDistRecords
  /\ Len(rabbitMQChan) < InboundChanCap
  /\ rabbitMQChan' = Append(rabbitMQChan, distNext)
  /\ distNext' = distNext + 1
  /\ UNCHANGED <<distCancelled, distPc, distCur, businessLogicChan,
                 batchWriterChan, closedChans, outcome>>
  /\ UNCHANGED <<bwVars, hcVars, mqVars, shVars, blReceived, bwReceived>>

\* main's signal goroutine: cancel().
DistCancel ==
  /\ ~distCancelled
  /\ distCancelled' = TRUE
  /\ UNCHANGED <<rabbitMQChan, distNext, distPc, distCur, businessLogicChan,
                 batchWriterChan, closedChans, outcome>>
  /\ UNCHANGED <<bwVars, hcVars, mqVars, shVars, blReceived, bwReceived>>

\* The business logic processor takes a record from businessLogicChan.
BusinessLogicReceive ==
  /\ businessLogicChan # <<>>
  /\ businessLogicChan' = Tail(businessLogicChan)
  /\ blReceived' = Append(blReceived, Head(businessLogicChan))
  /\ UNCHANGED <<rabbitMQChan, distNext, distCancelled, distPc, distCur,
                 batchWriterChan, closedChans, outcome>>
  /\ UNCHANGED <<bwVars, hcVars, mqVars, shVars, bwReceived>>

\* The batch writer takes a record from batchWriterChan.
BatchWriterReceive ==
  /\ batchWriterChan # <<>>
  /\ batchWriterChan' = Tail(batchWriterChan)
  /\ bwReceived' = Append(bwReceived, Head(batchWriterChan))
  /\ UNCHANGED <<rabbitMQChan, distNext, distCancelled, distPc, distCur,
                 businessLogicChan, closedChans, outcome>>
  /\ UNCHANGED <<bwVars, hcVars, mqVars, shVars, blReceived>>

\* Distributor, what follows the two close calls: return.
AfterClose_NextIteration == "select"

AfterClose == "done"

\* Distributor, case <-ctx.Done(): close both outbound channels and return.
\* (The case of a closed rabbitMQChan has the same body; no code closes
\* rabbitMQChan, so it is never taken.)  Closing a closed channel panics.
DistCtxDone ==
  /\ distPc = "select"
  /\ distCancelled
  /\ IF closedChans = {}
       THEN /\ closedChans' = {"businessLogicChan", "batchWriterChan"}
            /\ distPc' = AfterClose
       ELSE /\ distPc' = "panic"
            /\ UNCHANGED closedChans
  /\ UNCHANGED <<rabbitMQChan, distNext, distCancelled, distCur,
                 businessLogicChan, batchWriterChan, outcome>>
  /\ UNCHANGED <<bwVars, hcVars, mqVars, shVars, blReceived, bwReceived>>

\* Distributor, case sensorData, ok := <-rabbitMQChan with ok.
DistReceive ==
  /\ distPc = "select"
  /\ rabbitMQChan # <<>>
  /\ distCur' = Head(rabbitMQChan)
  /\ rabbitMQChan' = Tail(rabbitMQChan)
  /\ outcome' = Append(outcome,
                  [id |-> Head(rabbitMQChan),
                   bl |-> "none", bw |-> "none",
                   blFull |-> Len(businessLogicChan) >= DistChanCap,
                   bwFull |-> FALSE])
  /\ distPc' = "sendBL"
  /\ UNCHANGED <<distNext, distCancelled, businessLogicChan, batchWriterChan,
                 closedChans>>
  /\ UNCHANGED <<bwVars, hcVars, mqVars, shVars, blReceived, bwReceived>>

\* case <-time.After(1 * time.Second): the timer of a timed send fires only
\* after the channel has been full for the whole second.
SendTimedOut_Never(ch) == FALSE

SendTimedOut(ch) == Len(ch) >= DistChanCap

\* After the timed send to businessLogicChan the distributor goes on to the
\* timed send to batchWriterChan, whether the first send timed out or not.
AfterBusinessLogicSend_Continue(sent) == IF sent THEN "sendBW" ELSE "select"

AfterBusinessLogicSend(sent) == "sendBW"

\* A send on a channel: the value is received after those sent before it.
ChanSend_Front(ch, x) == <<x>> \o ch

ChanSend(ch, x) == Append(ch, x)

\* Distributor, the timed send to businessLogicChan: the send when the
\* channel has room, the timeout (the record is dropped for this sink)
\* when it stayed full.  A send on a closed channel panics.
DistSendBusinessLogic ==
  /\ distPc = "sendBL"
  /\ LET n == Len(outcome)
         step(sent) ==
           /\ distPc' = AfterBusinessLogicSend(sent)
           /\ outcome' = [outcome EXCEPT
                ![n].bl = IF sent THEN "sent" ELSE "dropped",
                ![n].bwFull = Len(batchWriterChan) >= DistChanCap]
     IN IF "businessLogicChan" \in closedChans
          THEN /\ distPc' = "panic"
               /\ UNCHANGED <<businessLogicChan, outcome>>
          ELSE \/ /\ Len(businessLogicChan) < DistChanCap
                  /\ businessLogicChan' = ChanSend(businessLogicChan, distCur)
                  /\ step(TRUE)
               \/ /\ SendTimedOut(businessLogicChan)
                  /\ UNCHANGED businessLogicChan
                  /\ step(FALSE)
  /\ UNCHANGED <<rabbitMQChan, distNext, distCancelled, distCur,
                 batchWriterChan, closedChans>>
  /\ UNCHANGED <<bwVars, hcVars, mqVars, shVars, blReceived, bwReceived>>

\* Distributor, the timed send to batchWriterChan, then the next iteration.
DistSendBatchWriter ==
  /\ distPc = "sendBW"
  /\ LET n == Len(outcome)
     IN IF "batchWriterChan" \in closedChans
          THEN /\ distPc' = "panic"
               /\ UNCHANGED <<batchWriterChan, outcome>>
          ELSE \/ /\ Len(batchWriterChan) < DistChanCap
                  /\ batchWriterChan' = ChanSend(batchWriterChan, distCur)
                  /\ outcome' = [outcome EXCEPT ![n].bw = "sent"]
                  /\ distPc' = "select"
               \/ /\ SendTimedOut(batchWriterChan)
                  /\ UNCHANGED batchWriterChan
                  /\ outcome' = [outcome EXCEPT ![n].bw = "dropped"]
                  /\ distPc' = "select"
  /\ UNCHANGED <<rabbitMQChan, distNext, distCancelled, distCur,
                 businessLogicChan, closedChans>>
  /\ UNCHANGED <<bwVars, hcVars, mqVars, shVars, blReceived, bwReceived>>

DistNext ==
  \/ DistInbound
  \/ DistCancel
  \/ BusinessLogicReceive
  \/ BatchWriterReceive
  \/ DistCtxDone
  \/ DistReceive
  \/ DistSendBusinessLogic
  \/ DistSendBatchWriter

\* ========================================================= RabbitMQ consumer

Msgs == 1..MaxMsgs

\* The message bodies: a JSON document with a device_id, bytes that
\* json.Unmarshal rejects, and a JSON document whose device_id is absent
\* or empty.
ValidBody == [json |-> TRUE, device_id |-> "D1"]

MalformedBody == [json |-> FALSE, device_id |-> ""]

NoDeviceBody == [json |-> TRUE, device_id |-> ""]

Bodies == {ValidBody, MalformedBody, NoDeviceBody}

\* The messages of the queue are interchangeable (the broker delivers the
\* ready ones in any order): one queue stands for every arrangement of the
\* same bodies, the one that lists them in this order.
BodyRank(body) ==
  IF body = ValidBody THEN 1 ELSE IF body = MalformedBody THEN 2 ELSE 3

\* NewRabbitMQService returned a service: connect() dialled connection 1,
\* opened its channel and started the first handleReconnect goroutine, which
\* waits for the close notification of r.conn.  Consume is about to subscribe.
\* The queue holds MaxMsgs messages, each with one of the given bodies.
MqInit(bodies) ==
  /\ brokerUp = TRUE
  /\ openConns = {1}
  /\ connCount = 1
  /\ losses = 0
  /\ rConn = 1
  /\ rChannel = 1
  /\ isClosing = FALSE
  /\ mqCancelled = FALSE
  /\ handlers = <<[pc |-> "wait", watch |-> 1]>>
  /\ consPc = "consume"
  /\ msgsConn = 0
  /\ curMsg = 0
  /\ curConn = 0
  /\ \E body \in [Msgs -> bodies] :
       /\ \A m, n \in Msgs : m < n => BodyRank(body[m]) <= BodyRank(body[n])
       /\ queue = [m \in Msgs |-> [state |-> "ready", acks |-> 0,
                                body |-> body[m]]]
  /\ forwarded = {}
  /\ redelivery = FALSE
  /\ mqSensorDataChan = <<>>
  /\ lastErr = "none"
  /\ lastVerdict = "none"

\* The broker requeues the deliveries of a connection that went away.
Requeued(q, unackedOn) ==
  [m \in Msgs |-> IF q[m].state = "unacked" /\ m \in unackedOn
                    THEN [q[m] EXCEPT !.state = "ready"] ELSE q[m]]

\* The broker (or the network) drops an open connection; the broker may be
\* unreachable afterwards.  Deliveries that were not acknowledged are ready
\* for redelivery.
ConnectionLost(c, down) ==
  /\ c \in openConns
  /\ losses < MaxLosses
  /\ losses' = losses + 1
  /\ openConns' = openConns \ {c}
  /\ brokerUp' = ~down
  /\ queue' = IF (consPc = "process" /\ curConn = c)
                THEN Requeued(queue, {curMsg}) ELSE queue
  /\ UNCHANGED <<connCount, rConn, rChannel, isClosing, mqCancelled, handlers,
                 consPc, msgsConn, curMsg, curConn, forwarded,
                 mqSensorDataChan, lastErr, lastVerdict, redelivery>>
  /\ UNCHANGED <<bwVars, hcVars, distVars, shVars>>

\* The broker becomes reachable again.
BrokerRecovers ==
  /\ ~brokerUp
  /\ brokerUp' = TRUE
  /\ UNCHANGED <<openConns, connCount, losses, rConn, rChannel, isClosing,
                 mqCancelled, handlers, consPc, msgsConn, curMsg, curConn,
                 queue, forwarded,
                 mqSensorDataChan, lastErr, lastVerdict, redelivery>>
  /\ UNCHANGED <<bwVars, hcVars, distVars, shVars>>

\* main's signal goroutine: cancel().
MqCancel ==
  /\ ~mqCancelled
  /\ mqCancelled' = TRUE
  /\ UNCHANGED <<brokerUp, openConns, connCount, losses, rConn, rChannel,
                 isClosing, handlers, consPc, msgsConn, curMsg, curConn,
                 queue, forwarded,
                 mqSensorDataChan, lastErr, lastVerdict, redelivery>>
  /\ UNCHANGED <<bwVars, hcVars, distVars, shVars>>

\* Close, called by main after ctx.Done(): set isClosing, close r.channel
\* and r.conn.
Close ==
  /\ mqCancelled
  /\ ~isClosing
  /\ isClosing' = TRUE
  /\ openConns' = openConns \ {rConn, rChannel}
  /\ queue' = IF (consPc = "process" /\ curConn \in {rConn, rChannel})
                THEN Requeued(queue, {curMsg}) ELSE queue
  /\ UNCHANGED <<brokerUp, connCount, losses, rConn, rChannel, mqCancelled,
                 handlers, consPc, msgsConn, curMsg, curConn, forwarded,
                 mqSensorDataChan, lastErr, lastVerdict, redelivery>>
  /\ UNCHANGED <<bwVars, hcVars, distVars, shVars>>

\* handleReconnect: closeErr := <-r.conn.NotifyClose(...) returns because the
\* watched connection is closed; return when isClosing, otherwise enter the
\* reconnect loop.
NotifyClose(h) ==
  /\ h \in DOMAIN handlers
  /\ handlers[h].pc = "wait"
  /\ handlers[h].watch \notin openConns
  /\ handlers' = [handlers EXCEPT
                    ![h].pc = IF isClosing THEN "done" ELSE "connect"]
  /\ UNCHANGED <<brokerUp, openConns, connCount, losses, rConn, rChannel,
                 isClosing, mqCancelled, consPc, msgsConn, curMsg, curConn,
                 queue, forwarded,
                 mqSensorDataChan, lastErr, lastVerdict, redelivery>>
  /\ UNCHANGED <<bwVars, hcVars, distVars, shVars>>

\* handleReconnect: what follows a failed r.connect():
\* time.Sleep(5 * time.Second) and the next attempt, with no count of the
\* attempts.
AfterConnectError_GiveUp == "done"

AfterConnectError == "backoff"

\* handleReconnect: err := r.connect() fails (the broker is unreachable for
\* all of connect's dials); time.Sleep(5 * time.Second) starts.
connectFails(h) ==
  /\ h \in DOMAIN handlers
  /\ handlers[h].pc = "connect"
  /\ ~brokerUp
  /\ handlers' = [handlers EXCEPT ![h].pc = AfterConnectError]
  /\ UNCHANGED <<brokerUp, openConns, connCount, losses, rConn, rChannel,
                 isClosing, mqCancelled, consPc, msgsConn, curMsg, curConn,
                 queue, forwarded,
                 mqSensorDataChan, lastErr, lastVerdict, redelivery>>
  /\ UNCHANGED <<bwVars, hcVars, distVars, shVars>>

\* handleReconnect: the sleep after a failed attempt is over, the inner
\* loop attempts to reconnect again.
ReconnectRetry(h) ==
  /\ h \in DOMAIN handlers
  /\ handlers[h].pc = "backoff"
  /\ handlers' = [handlers EXCEPT ![h].pc = "connect"]
  /\ UNCHANGED <<brokerUp, openConns, connCount, losses, rConn, rChannel,
                 isClosing, mqCancelled, consPc, msgsConn, curMsg, curConn,
                 queue, forwarded,
                 mqSensorDataChan, lastErr, lastVerdict, redelivery>>
  /\ UNCHANGED <<bwVars, hcVars, distVars, shVars>>

\* handleReconnect: err := r.connect() succeeds: a new connection and
\* channel are stored in r.conn and r.channel, connect starts one more
\* handleReconnect goroutine, and the caller goes on to r.reconnect <- true.
connect(h) ==
  /\ h \in DOMAIN handlers
  /\ handlers[h].pc = "connect"
  /\ brokerUp
  /\ LET c == connCount + 1
     IN /\ connCount' = c
        /\ openConns' = openConns \cup {c}
        /\ rConn' = c
        /\ rChannel' = c
        /\ handlers' = Append([handlers EXCEPT ![h].pc = "signal"],
                              [pc |-> "wait", watch |-> c])
  /\ UNCHANGED <<brokerUp, losses, isClosing, mqCancelled, consPc, msgsConn,
                 curMsg, curConn, queue, forwarded,
                 mqSensorDataChan, lastErr, lastVerdict, redelivery>>
  /\ UNCHANGED <<bwVars, hcVars, distVars, shVars>>

\* handleReconnect's r.reconnect <- true meets Consume's case <-r.reconnect
\* (the channel is unbuffered): Consume breaks out of consumeLoop, the
\* handler waits for the close notification of the current r.conn.
ReconnectSignal(h) ==
  /\ h \in DOMAIN handlers
  /\ handlers[h].pc = "signal"
  /\ consPc = "select"
  /\ consPc' = "consume"
  /\ handlers' = [handlers EXCEPT ![h].pc = "wait", ![h].watch = rConn]
  /\ UNCHANGED <<brokerUp, openConns, connCount, losses, rConn, rChannel,
                 isClosing, mqCancelled, msgsConn, curMsg, curConn, queue,
                 forwarded,
                 mqSensorDataChan, lastErr, lastVerdict, redelivery>>
  /\ UNCHANGED <<bwVars, hcVars, distVars, shVars>>

\* Consume: what follows r.channel.Consume returning an error:
\* return fmt.Errorf("failed to register consumer: %w", err)
AfterConsumeError_Retry == "sleep"

AfterConsumeError == "returnedErr"

\* Consume: msgs, err := r.channel.Consume(...): a subscription on the
\* channel r.channel holds now; on a closed channel the call fails.
ConsumeSubscribe ==
  /\ consPc = "consume"
  /\ IF rChannel \in openConns
       THEN consPc' = "select" /\ msgsConn' = rChannel
       ELSE consPc' = AfterConsumeError /\ UNCHANGED msgsConn
  /\ UNCHANGED <<brokerUp, openConns, connCount, losses, rConn, rChannel,
                 isClosing, mqCancelled, handlers, curMsg, curConn, queue,
                 forwarded,
                 mqSensorDataChan, lastErr, lastVerdict, redelivery>>
  /\ UNCHANGED <<bwVars, hcVars, distVars, shVars>>

\* Consume, case <-ctx.Done(): return nil.
ConsumeCtxDone ==
  /\ consPc = "select"
  /\ mqCancelled
  /\ consPc' = "stopped"
  /\ UNCHANGED <<brokerUp, openConns, connCount, losses, rConn, rChannel,
                 isClosing, mqCancelled, handlers, msgsConn, curMsg, curConn,
                 queue, forwarded,
                 mqSensorDataChan, lastErr, lastVerdict, redelivery>>
  /\ UNCHANGED <<bwVars, hcVars, distVars, shVars>>

\* Consume, case msg, ok := <-msgs with !ok (the subscription's connection
\* is closed): time.Sleep(1 * time.Second) starts.
ConsumeMsgsClosed ==
  /\ consPc = "select"
  /\ msgsConn \notin openConns
  /\ consPc' = "sleep"
  /\ UNCHANGED <<brokerUp, openConns, connCount, losses, rConn, rChannel,
                 isClosing, mqCancelled, handlers, msgsConn, curMsg, curConn,
                 queue, forwarded,
                 mqSensorDataChan, lastErr, lastVerdict, redelivery>>
  /\ UNCHANGED <<bwVars, hcVars, distVars, shVars>>

\* Consume: the sleep is over, break consumeLoop.
ConsumeWake ==
  /\ consPc = "sleep"
  /\ consPc' = "consume"
  /\ UNCHANGED <<brokerUp, openConns, connCount, losses, rConn, rChannel,
                 isClosing, mqCancelled, handlers, msgsConn, curMsg, curConn,
                 queue, forwarded,
                 mqSensorDataChan, lastErr, lastVerdict, redelivery>>
  /\ UNCHANGED <<bwVars, hcVars, distVars, shVars>>

\* Consume, case msg, ok := <-msgs with ok: the broker delivers a ready
\* message on the subscription.
ConsumeDelivery(m) ==
  /\ consPc = "select"
  /\ msgsConn \in openConns
  /\ queue[m].state = "ready"
  /\ queue' = [queue EXCEPT ![m].state = "unacked"]
  /\ redelivery' = (lastVerdict = "nack" /\ curMsg = m)
  /\ curMsg' = m
  /\ curConn' = msgsConn
  /\ consPc' = "process"
  /\ lastErr' = "none"
  /\ lastVerdict' = "none"
  /\ UNCHANGED <<brokerUp, openConns, connCount, losses, rConn, rChannel,
                 isClosing, mqCancelled, handlers, msgsConn, forwarded,
                 mqSensorDataChan>>
  /\ UNCHANGED <<bwVars, hcVars, distVars, shVars>>

\* processMessage, if err := json.Unmarshal(msg.Body, &sensorData); err != nil
UnmarshalFails(body) == ~body.json

\* processMessage, if sensorData.DeviceID == ""
MissingDeviceID_Never(body) == FALSE

MissingDeviceID(body) == body.device_id = ""

\* processMessage, case <-time.After(5 * time.Second): the timer of the timed
\* send fires only after the channel has been full for the whole 5 s.
ProcessingSendTimedOut(ch) == Len(ch) >= MqChanCap

\* processMessage's result: the error it returns, "nil" when the record was
\* put on the processing channel.
processMessageResult(body, ch) ==
  IF UnmarshalFails(body) THEN "unmarshal"
  ELSE IF MissingDeviceID(body) THEN "missing device_id"
  ELSE IF ProcessingSendTimedOut(ch) THEN "timeout"
  ELSE "nil"

\* Consume: if err := r.processMessage(...); err != nil { msg.Nack(false, true) }
\* else { msg.Ack(false) }
Verdict_AlwaysAck(err) == "ack"

Verdict(err) == IF err # "nil" THEN "nack" ELSE "ack"

\* Consume: processMessage runs and returns, then msg.Ack(false) or
\* msg.Nack(false, true) is issued; either fails without effect when the
\* delivery's connection is closed (the broker has requeued the delivery).
processMessage ==
  /\ consPc = "process"
  /\ LET err == processMessageResult(queue[curMsg].body, mqSensorDataChan)
         v == Verdict(err)
     IN /\ lastErr' = err
        /\ lastVerdict' = v
        /\ IF err = "nil"
             THEN /\ mqSensorDataChan' = Append(mqSensorDataChan, curMsg)
                  /\ forwarded' = forwarded \cup {curMsg}
             ELSE UNCHANGED <<mqSensorDataChan, forwarded>>
        /\ queue' = IF curConn \in openConns
                      THEN [queue EXCEPT
                              ![curMsg].state =
                                 IF v = "ack" THEN "acked" ELSE "ready",
                              ![curMsg].acks = IF v = "ack" THEN @ + 1 ELSE @]
                      ELSE queue
  /\ consPc' = "select"
  /\ UNCHANGED <<brokerUp, openConns, connCount, losses, rConn, rChannel,
                 isClosing, mqCancelled, handlers, msgsConn, curMsg, curConn,
                 redelivery>>
  /\ UNCHANGED <<bwVars, hcVars, distVars, shVars>>

\* The reader of the processing channel (main's distributor,
\* case sensorData, ok := <-rabbitMQChan) takes a record.
SensorDataChanReceive ==
  /\ mqSensorDataChan # <<>>
  /\ mqSensorDataChan' = Tail(mqSensorDataChan)
  /\ UNCHANGED <<brokerUp, openConns, connCount, losses, rConn, rChannel,
                 isClosing, mqCancelled, handlers, consPc, msgsConn, curMsg,
                 curConn, queue, forwarded, lastErr, lastVerdict, redelivery>>
  /\ UNCHANGED <<bwVars, hcVars, distVars, shVars>>

MqEnvironment ==
  \/ \E c \in openConns : \E down \in BOOLEAN : ConnectionLost(c, down)
  \/ MqCancel
  \/ Close
  \/ SensorDataChanReceive

MqHandlers ==
  \/ \E h \in DOMAIN handlers : NotifyClose(h)
  \/ \E h \in DOMAIN handlers : connect(h)
  \/ \E h \in DOMAIN handlers : connectFails(h)
  \/ \E h \in DOMAIN handlers : ReconnectRetry(h)

MqRendezvous == \E h \in DOMAIN handlers : ReconnectSignal(h)

MqConsume ==
  \/ ConsumeSubscribe
  \/ ConsumeCtxDone
  \/ ConsumeMsgsClosed
  \/ ConsumeWake
  \/ \E m \in Msgs : ConsumeDelivery(m)
  \/ processMessage

MqNext ==
  \/ MqEnvironment
  \/ BrokerRecovers
  \/ MqHandlers
  \/ MqRendezvous
  \/ MqConsume

\* ================================================================= startup

\* connect, after the dial: r.conn.Channel(), r.channel.Qos, ExchangeDeclare,
\* QueueDeclare and the two QueueBind calls, in this order.
SetupCalls ==
  <<"Channel", "Qos", "ExchangeDeclare", "QueueDeclare", "QueueBind",
    "QueueBind amq.topic">>

\* main calls NewRabbitMQService, which calls connect: attempt := 1.
StInit ==
  /\ stPc = "dial"
  /\ stAttempt = 1
  /\ stSleepLeft = 0
  /\ stStage = 1
  /\ stErr = "nil"
  /\ stService = FALSE
  /\ stDelays = <<>>
  /\ tasksStarted = FALSE

\* connect: if attempt < maxRetries (a sleep follows the failed dial)
SleepAfterDial_Always(attempt) == TRUE

SleepAfterDial(attempt) == attempt < connectMaxRetries

\* connect: time.Duration(attempt) * 2 * time.Second
ConnectDelay(attempt) == attempt * ConnectDelayUnit

\* connect: r.conn, err = amqp.Dial(...) returns.  On success the loop is
\* left; on failure the sleep follows unless this was the last attempt,
\* after which the loop ends with the error.
Dial(ok) ==
  /\ stPc = "dial"
  /\ IF ok
       THEN /\ stPc' = "setup"
            /\ UNCHANGED <<stAttempt, stSleepLeft, stErr, stDelays>>
       ELSE IF SleepAfterDial(stAttempt)
         THEN /\ stPc' = "sleep"
              /\ stSleepLeft' = ConnectDelay(stAttempt)
              /\ stDelays' = Append(stDelays, ConnectDelay(stAttempt))
              /\ UNCHANGED <<stAttempt, stErr>>
         ELSE IF stAttempt + 1 <= connectMaxRetries
           THEN /\ stAttempt' = stAttempt + 1
                /\ UNCHANGED <<stPc, stSleepLeft, stErr, stDelays>>
           ELSE /\ stPc' = "failed"
                /\ stErr' = "Dial"
                /\ UNCHANGED <<stAttempt, stSleepLeft, stDelays>>
  /\ UNCHANGED <<stStage, stService, tasksStarted>>
  /\ UNCHANGED <<bwVars, hcVars, distVars, mqVars, tgVars>>
  /\ UNCHANGED <<sigPc, mainPc, shElapsed, graceDeadline, cleanupDone, exited>>

\* connect: a second of time.Sleep passes; at its end attempt++ and, while
\* attempt <= maxRetries, the next dial.
ConnectSleep ==
  /\ stPc = "sleep"
  /\ stSleepLeft' = stSleepLeft - 1
  /\ IF stSleepLeft > 1
       THEN UNCHANGED <<stPc, stAttempt, stErr>>
       ELSE IF stAttempt + 1 <= connectMaxRetries
         THEN /\ stAttempt' = stAttempt + 1
              /\ stPc' = "dial"
              /\ UNCHANGED stErr
         ELSE /\ stPc' = "failed"
              /\ stErr' = "Dial"
              /\ UNCHANGED stAttempt
  /\ UNCHANGED <<stStage, stService, stDelays, tasksStarted>>
  /\ UNCHANGED <<bwVars, hcVars, distVars, mqVars, tgVars>>
  /\ UNCHANGED <<sigPc, mainPc, shElapsed, graceDeadline, cleanupDone, exited>>

\* connect: the next call after the dial returns; an error ends connect,
\* after the last call connect starts handleReconnect and returns nil.
Setup(ok) ==
  /\ stPc = "setup"
  /\ IF ~ok
       THEN /\ stPc' = "failed"
            /\ stErr' = SetupCalls[stStage]
            /\ UNCHANGED stStage
       ELSE IF stStage < Len(SetupCalls)
         THEN /\ stStage' = stStage + 1
              /\ UNCHANGED <<stPc, stErr>>
         ELSE /\ stPc' = "connected"
              /\ UNCHANGED <<stStage, stErr>>
  /\ UNCHANGED <<stAttempt, stSleepLeft, stService, stDelays, tasksStarted>>
  /\ UNCHANGED <<bwVars, hcVars, distVars, mqVars, tgVars>>
  /\ UNCHANGED <<sigPc, mainPc, shElapsed, graceDeadline, cleanupDone, exited>>

\* NewRabbitMQService: if err := service.connect(); err != nil
\* { return nil, err }; return service, nil
NewRabbitMQService ==
  /\ stPc \in {"connected", "failed"}
  /\ stService' = (stPc = "connected")
  /\ stPc' = "returned"
  /\ UNCHANGED <<stAttempt, stSleepLeft, stStage, stErr, stDelays,
                 tasksStarted>>
  /\ UNCHANGED <<bwVars, hcVars, distVars, mqVars, tgVars>>
  /\ UNCHANGED <<sigPc, mainPc, shElapsed, graceDeadline, cleanupDone, exited>>

\* main: if err != nil { logger.Fatal(...) } ends the process; otherwise
\* main goes on and starts its tasks.
MainAfterNewRabbitMQService ==
  /\ stPc = "returned"
  /\ IF stErr # "nil"
       THEN stPc' = "fatal" /\ UNCHANGED tasksStarted
       ELSE stPc' = "started" /\ tasksStarted' = TRUE
  /\ UNCHANGED <<stAttempt, stSleepLeft, stStage, stErr, stService, stDelays>>
  /\ UNCHANGED <<bwVars, hcVars, distVars, mqVars, tgVars>>
  /\ UNCHANGED <<sigPc, mainPc, shElapsed, graceDeadline, cleanupDone, exited>>

StNext ==
  \/ \E ok \in BOOLEAN : Dial(ok)
  \/ ConnectSleep
  \/ \E ok \in BOOLEAN : Setup(ok)
  \/ NewRabbitMQService
  \/ MainAfterNewRabbitMQService

\* ========================================================= process shutdown

\* main has started every task and waits at <-ctx.Done(); the signal
\* goroutine waits at <-sigChan.
ShInit ==
  /\ stPc = "started"
  /\ stAttempt = 1
  /\ stSleepLeft = 0
  /\ stStage = Len(SetupCalls)
  /\ stErr = "nil"
  /\ stService = TRUE
  /\ stDelays = <<>>
  /\ tasksStarted = TRUE
  /\ sigPc = "idle"
  /\ mainPc = "running"
  /\ shElapsed = 0
  /\ graceDeadline = 0
  /\ cleanupDone = 0
  /\ exited = "no"

\* Signal goroutine, case <-time.After(10 * time.Second)
HardTimeoutFires_Never(elapsed) == FALSE

HardTimeoutFires(elapsed) == elapsed >= HardTimeout

\* A second passes after cancel(); time.After fires at its deadline, so the
\* clock does not pass the hard timeout while the signal goroutine waits.
ShTick ==
  /\ exited = "no"
  /\ sigPc = "select"
  /\ shElapsed < HardTimeout
  /\ shElapsed' = shElapsed + 1
  /\ UNCHANGED <<sigPc, mainPc, graceDeadline, cleanupDone, exited>>
  /\ UNCHANGED <<bwVars, hcVars, distVars, mqVars, stVars, tgVars>>

\* Signal goroutine: <-sigChan returns (SIGINT or SIGTERM), cancel().
SignalReceived ==
  /\ exited = "no"
  /\ sigPc = "idle"
  /\ sigPc' = "select"
  /\ UNCHANGED <<mainPc, shElapsed, graceDeadline, cleanupDone, exited>>
  /\ UNCHANGED <<bwVars, hcVars, distVars, mqVars, stVars, tgVars>>

\* Signal goroutine, case <-cleanupDone: os.Exit(0).
SignalCleanupDone ==
  /\ exited = "no"
  /\ sigPc = "select"
  /\ cleanupDone > 0
  /\ cleanupDone' = cleanupDone - 1
  /\ sigPc' = "exit"
  /\ exited' = "cleanup"
  /\ UNCHANGED <<mainPc, shElapsed, graceDeadline>>
  /\ UNCHANGED <<bwVars, hcVars, distVars, mqVars, stVars, tgVars>>

\* Signal goroutine, case <-time.After(10 * time.Second): os.Exit(0).
SignalTimeout ==
  /\ exited = "no"
  /\ sigPc = "select"
  /\ HardTimeoutFires(shElapsed)
  /\ sigPc' = "exit"
  /\ exited' = "timeout"
  /\ UNCHANGED <<mainPc, shElapsed, graceDeadline, cleanupDone>>
  /\ UNCHANGED <<bwVars, hcVars, distVars, mqVars, stVars, tgVars>>

\* main: <-ctx.Done() returns, WaitForShutdown(5 * time.Second) is called.
MainCtxDone ==
  /\ exited = "no"
  /\ mainPc = "running"
  /\ sigPc = "select"
  /\ mainPc' = "waitForShutdown"
  /\ graceDeadline' = shElapsed + ShutdownGrace
  /\ UNCHANGED <<sigPc, shElapsed, cleanupDone, exited>>
  /\ UNCHANGED <<bwVars, hcVars, distVars, mqVars, stVars, tgVars>>

\* main: WaitForShutdown returns, true when the batch writer signalled,
\* false when the grace period is over.
MainWaitForShutdownReturns(flushed) ==
  /\ exited = "no"
  /\ mainPc = "waitForShutdown"
  /\ flushed \/ shElapsed >= graceDeadline
  /\ mainPc' = "closeRabbitMQ"
  /\ UNCHANGED <<sigPc, shElapsed, graceDeadline, cleanupDone, exited>>
  /\ UNCHANGED <<bwVars, hcVars, distVars, mqVars, stVars, tgVars>>

\* main: rabbitMQService.Close() returns (with or without an error).
MainCloseRabbitMQ ==
  /\ exited = "no"
  /\ mainPc = "closeRabbitMQ"
  /\ mainPc' = "closeFirebase"
  /\ UNCHANGED <<sigPc, shElapsed, graceDeadline, cleanupDone, exited>>
  /\ UNCHANGED <<bwVars, hcVars, distVars, mqVars, stVars, tgVars>>

\* main: firebaseService.Close() returns, cleanupDone <- true (the channel
\* has room for one value, the send does not block).
MainCloseFirebase ==
  /\ exited = "no"
  /\ mainPc = "closeFirebase"
  /\ cleanupDone' = cleanupDone + 1
  /\ mainPc' = "returning"
  /\ UNCHANGED <<sigPc, shElapsed, graceDeadline, exited>>
  /\ UNCHANGED <<bwVars, hcVars, distVars, mqVars, stVars, tgVars>>

\* main returns: the deferred calls have run and the process ends.
MainReturns ==
  /\ exited = "no"
  /\ mainPc = "returning"
  /\ mainPc' = "returned"
  /\ exited' = "main"
  /\ UNCHANGED <<sigPc, shElapsed, graceDeadline, cleanupDone>>
  /\ UNCHANGED <<bwVars, hcVars, distVars, mqVars, stVars, tgVars>>

\* The steps of the signal goroutine after cancel().
SignalExit ==
  \/ SignalCleanupDone
  \/ SignalTimeout

\* The steps of main's cleanup; each of them may take arbitrarily long.
MainCleanup ==
  \/ MainCtxDone
  \/ \E flushed \in BOOLEAN : MainWaitForShutdownReturns(flushed)
  \/ MainCloseRabbitMQ
  \/ MainCloseFirebase
  \/ MainReturns

ShNext ==
  \/ ShTick
  \/ SignalReceived
  \/ SignalExit
  \/ MainCleanup

\* ========================================================== anomaly alerts

\* No entry for the device in the map.
NoAlert == -1

\* shouldThrottleAlert / shouldThrottleFlameAlert: 15*time.Second
AlertCooldown == 15

\* NewTelegramService: both maps are empty.
TgInit ==
  /\ tgNow = 0
  /\ tgCalls = 0
  /\ lastAlertTimes = [d \in Devices |-> NoAlert]
  /\ lastFlameAlertTimes = [d \in Devices |-> NoAlert]
  /\ tgSent = [d \in Devices |-> [flame \in BOOLEAN |-> NoAlert]]
  /\ tgLast = [device |-> "none", flame |-> FALSE, result |-> "none"]

TgTick ==
  /\ tgNow < MaxTgTime
  /\ tgNow' = tgNow + 1
  /\ UNCHANGED <<tgCalls, lastAlertTimes, lastFlameAlertTimes, tgSent, tgLast>>
  /\ UNCHANGED <<bwVars, hcVars, distVars, mqVars, stVars>>
  /\ UNCHANGED <<sigPc, mainPc, shElapsed, graceDeadline, cleanupDone, exited>>

\* shouldThrottleAlert and shouldThrottleFlameAlert, for the entry of the
\* device in the map the function looks at:
\* return timeSinceLastAlert < 15*time.Second
shouldThrottle_Never(last, t) == FALSE

shouldThrottle(last, t) ==
  IF last = NoAlert THEN FALSE ELSE t - last < AlertCooldown

\* SendAnomalyAlert, which map a successful send updates:
\* if hasFlameDetection { ts.lastFlameAlertTimes[...] = time.Now() }
\* else { ts.lastAlertTimes[...] = time.Now() }
UpdatesFlameMap_Never(hasFlameDetection) == FALSE

UpdatesFlameMap(hasFlameDetection) == hasFlameDetection

\* SendAnomalyAlert for a non-empty list of anomalies of device d, with or
\* without a flame detection among them; ok: ts.bot.Send returns no error.
SendAnomalyAlert(d, hasFlameDetection, ok) ==
  /\ tgCalls < MaxTgCalls
  /\ tgCalls' = tgCalls + 1
  /\ LET throttled ==
           IF hasFlameDetection
             THEN shouldThrottle(lastFlameAlertTimes[d], tgNow)
             ELSE shouldThrottle(lastAlertTimes[d], tgNow)
         result == IF throttled THEN "throttled"
                   ELSE IF ok THEN "sent" ELSE "error"
     IN /\ tgLast' = [device |-> d, flame |-> hasFlameDetection,
                      result |-> result]
        /\ tgSent' = IF result = "sent"
                       THEN [tgSent EXCEPT ![d][hasFlameDetection] = tgNow]
                       ELSE tgSent
        /\ IF result # "sent"
             THEN UNCHANGED <<lastAlertTimes, lastFlameAlertTimes>>
             ELSE IF UpdatesFlameMap(hasFlameDetection)
               THEN /\ lastFlameAlertTimes' =
                         [lastFlameAlertTimes EXCEPT ![d] = tgNow]
                    /\ UNCHANGED lastAlertTimes
               ELSE /\ lastAlertTimes' = [lastAlertTimes EXCEPT ![d] = tgNow]
                    /\ UNCHANGED lastFlameAlertTimes
  /\ UNCHANGED tgNow
  /\ UNCHANGED <<bwVars, hcVars, distVars, mqVars, stVars>>
  /\ UNCHANGED <<sigPc, mainPc, shElapsed, graceDeadline, cleanupDone, exited>>

TgNext ==
  \/ TgTick
  \/ \E d \in Devices : \E flame, ok \in BOOLEAN : SendAnomalyAlert(d, flame, ok)

\* ========================================================== specifications

\* The state after construction of every component.  Each specification
\* draws the configuration of its own component from the whole bounded range
\* and leaves the other components at one configuration.
BwConfigured == BwInit(1..MaxBatchSizeCfg, 1..MaxBatchTimeoutCfg)

BwIdle == BwInit({MaxBatchSizeCfg}, {MaxBatchTimeoutCfg})

HcConfigured == HcInit(1..MaxHcTimeoutCfg)

HcIdle == HcInit({MaxHcTimeoutCfg})

MqConfigured == MqInit(Bodies)

MqIdle == MqInit({ValidBody})

InitBatch == BwConfigured /\ HcIdle /\ DistInit /\ MqIdle /\ ShInit /\ TgInit

InitHealth == BwIdle /\ HcConfigured /\ DistInit /\ MqIdle /\ ShInit /\ TgInit

InitDist == BwIdle /\ HcIdle /\ DistInit /\ MqIdle /\ ShInit /\ TgInit

InitConsumer == BwIdle /\ HcIdle /\ DistInit /\ MqConfigured /\ ShInit /\ TgInit

SpecBatch == InitBatch /\ [][BwNext]_vars

SpecBatchRecorded == InitBatch /\ [][BwRecordedNext]_vars

\* The scheduling the batch writer's progress rests on: time passes, and the
\* Start goroutine takes a step whenever it can (a ready case of its select,
\* the next statement after a call returned).  Nothing is assumed about the
\* producers, the cancellation or the outcome and duration of WriteBatch.
\* The configurations are a batch size that the records can reach and one
\* they need not reach, with the shortest flush interval.
InitBatchFair ==
  /\ BwInit({2, MaxBatchSizeCfg}, {1})
  /\ HcIdle /\ DistInit /\ MqIdle /\ ShInit /\ TgInit

SpecBatchFair ==
  /\ InitBatchFair
  /\ [][BwNext]_vars
  /\ WF_vars(Tick)
  /\ WF_vars(StartStep)

SpecHealth == InitHealth /\ [][HcNext]_vars

InitHealthReader == BwIdle /\ HcIdle /\ DistInit /\ MqIdle /\ ShInit /\ TgInit

SpecHealthSink == InitHealthReader /\ [][HcSinkNext]_vars

SpecHealthReader == InitHealthReader /\ [][HcReaderNext]_vars

SpecDist == InitDist /\ [][DistNext]_vars

SpecConsumer == InitConsumer /\ [][MqNext]_vars

InitShutdown == BwIdle /\ HcIdle /\ DistInit /\ MqIdle /\ ShInit /\ TgInit

SpecShutdown == InitShutdown /\ [][ShutdownNext]_vars

ShIdle ==
  /\ sigPc = "idle"
  /\ mainPc = "running"
  /\ shElapsed = 0
  /\ graceDeadline = 0
  /\ cleanupDone = 0
  /\ exited = "no"

InitStartup == BwIdle /\ HcIdle /\ DistInit /\ MqIdle /\ ShIdle /\ StInit /\ TgInit

SpecStartup == InitStartup /\ [][StNext]_vars

InitProcess == BwIdle /\ HcIdle /\ DistInit /\ MqIdle /\ ShInit /\ TgInit

InitAlerts == BwIdle /\ HcIdle /\ DistInit /\ MqIdle /\ ShInit /\ TgInit

SpecAlerts == InitAlerts /\ [][TgNext]_vars

SpecProcess == InitProcess /\ [][ShNext]_vars

\* The scheduling the claim about the process's exit rests on: the clock
\* advances and the signal goroutine, once one of the cases of its select
\* is ready, takes it.  Nothing is assumed about main's cleanup: each of its
\* calls may never return.
SpecProcessFair ==
  /\ SpecProcess
  /\ WF_vars(ShTick)
  /\ WF_vars(SignalExit)

\* The scheduling the consumer's claims about progress rest on: every
\* goroutine that can take a step eventually takes one (Consume and the
\* handleReconnect goroutines), Go's select picks a ready case of Consume's
\* select again and again, so a handler whose send on r.reconnect is ready
\* whenever Consume is at its select eventually gets through, and a broker
\* that is down comes back.  Connection losses, cancellation and Close are
\* not forced.
SpecConsumerFair ==
  /\ SpecConsumer
  /\ WF_vars(MqConsume)
  /\ WF_vars(MqHandlers)
  /\ SF_vars(MqRendezvous)
  /\ WF_vars(BrokerRecovers)

\* ================================================= claims: batch writer

FlushedIds == UNION {Range(flushLog[i].batch) : i \in 1..Len(flushLog)}

\* C1 as stated: N records (0 < N < maxBatchSize) that all arrived within a
\* span shorter than the flush interval, with no shutdown, are flushed by
\* exactly one flush, which holds all N of them and is a timer flush.
C1_OneFlushPerSpan ==
  LET N == Len(recvd)
  IN (/\ N > 0
      /\ N < maxBatchSize
      /\ recvd[N].at - recvd[1].at < batchTimeout
      /\ ~cancelled
      /\ ~chanClosed
      /\ flushLog # <<>>)
     => /\ Len(flushLog) = 1
        /\ flushLog[1].trigger = "timer"
        /\ flushLog[1].batch = Ids(recvd)

\* C1 as amended: the records received between one arming of the flush
\* timer and the handling of its next firing (0 < N < maxBatchSize, no
\* shutdown) are flushed together: a timer flush takes exactly the records
\* received since the timer was armed, the buffer at the select holds exactly
\* those records, no record is in two flushes, and a flush of fewer than
\* maxBatchSize records outside shutdown is a timer flush.
C1_TimerFlushTakesWindow ==
  /\ \A i \in 1..Len(flushLog) :
       /\ flushLog[i].trigger = "timer" =>
            /\ flushLog[i].batch = flushLog[i].window
            /\ Len(flushLog[i].batch) > 0
            /\ Len(flushLog[i].batch) < maxBatchSize
       /\ (/\ flushLog[i].trigger \in {"size", "timer"}
           /\ Len(flushLog[i].batch) < maxBatchSize)
          => flushLog[i].trigger = "timer"
  /\ \A i, j \in 1..Len(flushLog) :
       \A a \in 1..Len(flushLog[i].batch), b \in 1..Len(flushLog[j].batch) :
         flushLog[i].batch[a] = flushLog[j].batch[b] => (i = j /\ a = b)
  /\ bwPc = "select" => buffer = window

\* C1 witness: a timer flush took two records while no shutdown was under way.
C1_Witness ==
  /\ ~cancelled
  /\ \E i \in 1..Len(flushLog) :
       flushLog[i].trigger = "timer" /\ Len(flushLog[i].batch) >= 2

\* C2: the flush is triggered as soon as the maxBatchSize-th record is
\* appended (a full buffer is only ever seen by the size flush, never by the
\* select), a size flush takes exactly maxBatchSize records, and it leaves an
\* empty buffer for the records that follow.
C2_SizeFlush ==
  /\ Len(buffer) >= maxBatchSize => (bwPc = "flush" /\ trigger = "size")
  /\ \A i \in 1..Len(flushLog) :
       flushLog[i].trigger = "size" => Len(flushLog[i].batch) = maxBatchSize
  /\ bwPc \in {"wait", "after"} => buffer = <<>>

\* C2 witness: after a size flush of at least two records, a later record
\* sits alone in the new batch.
C2_Witness ==
  /\ maxBatchSize >= 2
  /\ Len(flushLog) = 1
  /\ flushLog[1].trigger = "size"
  /\ bwPc = "select"
  /\ Len(buffer) = 1
  /\ buffer[1] \notin FlushedIds

\* C3: WriteBatch is never called more than maxRetries times for one batch,
\* the batch is gone from flushBuffer after the maxRetries-th failure, its
\* records are never back in the buffer, and Start ends only on shutdown or
\* on the closure of its input channel, never because a batch was discarded.
C3_RetryExhaustion ==
  /\ \A i \in 1..Len(writeLog) :
       /\ writeLog[i].attempt <= maxRetries
       /\ (writeLog[i].attempt = maxRetries /\ ~writeLog[i].ok)
            => writeLog[i].fid \notin DOMAIN flights
       /\ Range(writeLog[i].batch) \cap Range(buffer) = {}
  /\ \A f \in DOMAIN flights : flights[f].attempt <= maxRetries
  /\ \A f \in 1..Len(flushLog) :
       Cardinality({i \in 1..Len(writeLog) : writeLog[i].fid = f}) <= maxRetries
  /\ bwPc = "done" => trigger \in {"shutdown", "closed"}

\* C3 witness: a batch was discarded after maxRetries failures and Start,
\* back at its select, has accepted a new record.
C3_Witness ==
  /\ bwPc = "select"
  /\ buffer # <<>>
  /\ \E i \in 1..Len(writeLog) :
       writeLog[i].attempt = maxRetries /\ ~writeLog[i].ok

\* C8: the buffer never holds more than maxBatchSize records, and no batch
\* handed to WriteBatch does.
C8_BatchLengthBound ==
  /\ Len(buffer) <= maxBatchSize
  /\ \A f \in DOMAIN flights : Len(flights[f].batch) <= maxBatchSize
  /\ \A i \in 1..Len(writeLog) : Len(writeLog[i].batch) <= maxBatchSize

\* C8 witness: a batch of exactly maxBatchSize (at least two) records was
\* handed to WriteBatch.
C8_Witness ==
  /\ maxBatchSize >= 2
  /\ \E i \in 1..Len(writeLog) : Len(writeLog[i].batch) = maxBatchSize

\* C9: at most one flushBuffer write sequence is in progress, and while one
\* is, Start is inside that flushBuffer call.
C9_SingleFlight ==
  /\ Cardinality(DOMAIN flights) <= 1
  /\ flights # <<>> => bwPc = "wait"

\* C9 witness: a write sequence is in its back-off while a record waits in
\* the input channel, the context is cancelled and the channel is closed.
C9_Witness ==
  /\ \E f \in DOMAIN flights : flights[f].phase = "sleep"
  /\ sensorDataChan # <<>>
  /\ cancelled
  /\ chanClosed

\* ======================================== claims: device health monitor

Kinds(d) == [i \in 1..Len(events[d]) |-> events[d][i].kind]

\* C6 as stated: a device with one heartbeat and none afterwards is marked
\* TimedOut, with exactly one Timeout event, at the first scan at which the
\* elapsed time since last-seen has reached the threshold (or is later), and
\* no scan emits another one.
C6_TimeoutOnceReached ==
  \A d \in DOMAIN devices :
    hbCount[d] = 1 =>
      IF reachedScan[d] = NoScan
        THEN devices[d].Status = DeviceHealthy /\ events[d] = <<>>
        ELSE /\ devices[d].Status = DeviceTimeout
             /\ Kinds(d) = <<"Timeout">>
             /\ events[d][1].at = reachedScan[d]

\* C6 as amended: the same with the first scan at which the elapsed time
\* since last-seen strictly exceeds the threshold; a scan taken when the
\* elapsed time equals the threshold leaves the device Healthy.
C6_TimeoutOnceExceeded ==
  \A d \in DOMAIN devices :
    hbCount[d] = 1 =>
      IF exceededScan[d] = NoScan
        THEN devices[d].Status = DeviceHealthy /\ events[d] = <<>>
        ELSE /\ devices[d].Status = DeviceTimeout
             /\ Kinds(d) = <<"Timeout">>
             /\ events[d][1].at = exceededScan[d]
             /\ devices[d].TimeoutAt = exceededScan[d]

\* C6 witness: a device with one heartbeat was marked by a scan and the clock
\* is two units past that scan (later scans at each of those times are
\* reachable states with the same single event).
C6_Witness ==
  \E d \in DOMAIN devices :
    /\ hbCount[d] = 1
    /\ Kinds(d) = <<"Timeout">>
    /\ hcNow >= events[d][1].at + 2

\* C7 as stated: one Recovered event for the first heartbeat of a TimedOut
\* device, and its downtime is the time from the expiry of the threshold
\* (last-seen + threshold) to that heartbeat.
C7_DowntimeFromExpiry ==
  \A d \in Devices : \A i \in 1..Len(events[d]) :
    events[d][i].kind = "Recovered" =>
      events[d][i].down = events[d][i].at - events[d][i].expiredAt

\* C7 as amended: every Timeout event is followed by exactly one Recovered
\* event, emitted by the first heartbeat after it, none by later heartbeats;
\* its downtime is the time from the scan that marked the device (TimeoutAt)
\* to that heartbeat, which is shorter than the time since the expiry of the
\* threshold.
C7_RecoveredOnce ==
  \A d \in Devices :
    /\ \A i \in 1..Len(events[d]) :
         events[d][i].kind = "Recovered" =>
           /\ i > 1
           /\ events[d][i - 1].kind = "Timeout"
           /\ events[d][i].hb = events[d][i - 1].hb + 1
           /\ events[d][i].down = events[d][i].at - events[d][i - 1].at
           /\ events[d][i].down >= 0
           /\ events[d][i].down < events[d][i].at - events[d][i].expiredAt
    /\ \A i \in 1..Len(events[d]) :
         (events[d][i].kind = "Timeout" /\ hbCount[d] > events[d][i].hb)
           => /\ i < Len(events[d])
              /\ events[d][i + 1].kind = "Recovered"

\* C7 witness: a device timed out, recovered with a positive downtime, and
\* sent one more heartbeat while Healthy, with no further event.
C7_Witness ==
  \E d \in DOMAIN devices :
    /\ Kinds(d) = <<"Timeout", "Recovered">>
    /\ events[d][2].down > 0
    /\ hbCount[d] = events[d][2].hb + 1
    /\ devices[d].Status = DeviceHealthy

\* C10: a stored status is Healthy or TimedOut, a device is created Healthy
\* by updateHealthCheck, and a status changes only from Healthy to TimedOut
\* in checkTimeouts or from TimedOut to Healthy in updateHealthCheck.
C10_StatusMachine ==
  [][\A d \in Devices :
       /\ d \in DOMAIN devices' =>
            devices'[d].Status \in {DeviceHealthy, DeviceTimeout}
       /\ (d \notin DOMAIN devices /\ d \in DOMAIN devices') =>
            /\ devices'[d].Status = DeviceHealthy
            /\ \E ok \in BOOLEAN : updateHealthCheck(d, ok)
       /\ d \in DOMAIN devices =>
            /\ d \in DOMAIN devices'
            /\ devices'[d].Status # devices[d].Status =>
                 \/ /\ devices[d].Status = DeviceHealthy
                    /\ devices'[d].Status = DeviceTimeout
                    /\ \E okf \in [TimingOut -> BOOLEAN] : checkTimeouts(okf)
                 \/ /\ devices[d].Status = DeviceTimeout
                    /\ devices'[d].Status = DeviceHealthy
                    /\ \E ok \in BOOLEAN : updateHealthCheck(d, ok)]_vars

\* C10 witness: a device went Healthy, TimedOut, Healthy and TimedOut again.
C10_Witness ==
  \E d \in DOMAIN devices :
    /\ Kinds(d) = <<"Timeout", "Recovered", "Timeout">>
    /\ devices[d].Status = DeviceTimeout

\* C14: WaitForShutdown returns true exactly when Start's final flush was
\* complete (Start had returned) before the grace period elapsed, whether
\* Start left through its cancellation branch or through the branch of the
\* closed input channel.
C14_ShutdownResult ==
  /\ wfs = "true" => (doneAt # NotDone /\ doneAt <= wfsDeadline)
  /\ wfs = "false" => (doneAt = NotDone \/ doneAt >= wfsDeadline)

\* A step of the batch writer's task (Start and the flushBuffer it calls).
BatchWriterStep ==
  \/ StartCtxDone
  \/ StartChanClosed
  \/ StartReceive
  \/ StartTimer
  \/ FlushBufferSwap
  \/ \E f \in DOMAIN flights : \E ok \in BOOLEAN : WriteBatchReturns(f, ok)
  \/ \E f \in DOMAIN flights : BackoffDone(f)
  \/ AfterFlush

\* C16 for the batch-buffer loop: once the cancellation signal is given, the
\* task is never blocked in a wait: until Start has returned it can take a
\* step at once; in particular a retry back-off ends on cancellation.
C16_CancellationObserved ==
  (cancelled /\ bwPc # "done") => ENABLED BatchWriterStep

\* ============================================= claims: process shutdown

\* C15: once the shutdown signal was received the process exits: through
\* the signal goroutine when cleanup reported completion or when the hard
\* timeout fired, or because main returned; it exits through the timeout
\* only at the hard timeout, and no later than it, however long the calls
\* of main's cleanup take.
C15_BoundedShutdown ==
  /\ (sigPc # "idle") ~> (exited # "no")
  /\ [](exited = "timeout" => shElapsed = HardTimeout)
  /\ [](shElapsed <= HardTimeout)
  /\ [][(exited = "no" /\ exited' = "cleanup") => cleanupDone > 0]_vars

\* The process was ended by the hard timeout while main was still inside
\* rabbitMQService.Close().
C15_Witness ==
  /\ exited = "timeout"
  /\ mainPc = "closeRabbitMQ"
  /\ shElapsed = HardTimeout

\* ===================================================== claims: startup

\* C17: connect dials at most 5 times; the i-th failed dial but the last is
\* followed by a delay of i times the unit (2 s), the last one by none; after
\* the 5th failed dial connect returns an error; when connect returned an
\* error NewRabbitMQService returns no service and main ends the process
\* without starting a task; tasks are started only with a service.
C17_StartupConnect ==
  /\ stAttempt \in 1..connectMaxRetries
  /\ Len(stDelays) <= connectMaxRetries - 1
  /\ \A i \in 1..Len(stDelays) : stDelays[i] = i * 2
  /\ stPc = "dial" => Len(stDelays) = stAttempt - 1
  /\ stErr = "Dial" =>
       /\ stAttempt = connectMaxRetries
       /\ Len(stDelays) = connectMaxRetries - 1
  /\ (stPc \in {"returned", "fatal", "started"} /\ stErr # "nil")
       => (~stService /\ ~tasksStarted /\ stPc # "started")
  /\ tasksStarted => (stService /\ stErr = "nil")
  /\ stPc = "fatal" => stErr # "nil"

\* Five dials failed and main ended the process.
C17_Witness ==
  /\ stPc = "fatal"
  /\ stErr = "Dial"
  /\ stDelays = <<2, 4, 6, 8>>
  /\ ~tasksStarted

\* What holds of every record in the registry between two critical
\* sections: a device marked as timed out has the time of the marking.
RecordConsistent(rec) == rec.Status = DeviceTimeout => rec.TimeoutAt # ZeroTime

\* C19: the records of the registry are consistent whenever the lock is
\* free; every read of a record's field happens while h.mu is held, the
\* reads of a caller of GetDeviceHealth included; so what such a caller has
\* read of a record is a state the record was in.
C19_RegistryIsolation ==
  /\ \A d \in DOMAIN devices : RecordConsistent(devices[d])
  /\ ~rdUnlocked
  /\ rdPc = "done" /\ rdSnap # <<>> => RecordConsistent(rdSnap)

\* ========================================== claims: message distributor

\* C5: every record the distributor has finished with was offered to both
\* sinks; a sink that had room when the distributor came to it received the
\* record, whatever happened at the other sink; a record is dropped for a
\* sink only if that sink was full; after the second sink the distributor is
\* back at its select; it never panics, and at a timed send it can always
\* take a step (the send or the timeout), so it never blocks on a sink.
C5_SinkIsolation ==
  /\ distPc # "panic"
  /\ \A i \in 1..Len(outcome) :
       /\ outcome[i].id = i
       /\ (i < Len(outcome) \/ distPc \in {"select", "done"})
            => (outcome[i].bl # "none" /\ outcome[i].bw # "none")
       /\ (outcome[i].bl # "none" /\ ~outcome[i].blFull)
            => outcome[i].bl = "sent"
       /\ (outcome[i].bw # "none" /\ ~outcome[i].bwFull)
            => outcome[i].bw = "sent"
       /\ outcome[i].bl = "dropped" => outcome[i].blFull
       /\ outcome[i].bw = "dropped" => outcome[i].bwFull
  /\ distPc = "sendBL" => ENABLED DistSendBusinessLogic
  /\ distPc = "sendBW" => ENABLED DistSendBatchWriter

\* C5 witness: batchWriterChan is full and was never drained; a record was
\* delivered to businessLogicChan and dropped for batchWriterChan, and the
\* distributor has taken the next record.
C5_Witness ==
  /\ Len(batchWriterChan) >= DistChanCap
  /\ \E i \in 1..Len(outcome) :
       /\ outcome[i].bl = "sent"
       /\ outcome[i].bw = "dropped"
       /\ i < Len(outcome)
       /\ \A j \in 1..i : outcome[j].bw = "sent" => j <= DistChanCap

\* The records the consumer put on rabbitMQChan.
Accepted == 1..(distNext - 1)

\* The records the distributor has offered to both sinks.
Offered ==
  {outcome[i].id : i \in {j \in 1..Len(outcome) :
                            outcome[j].bl # "none" /\ outcome[j].bw # "none"}}

\* C13: when the distributor has closed its outbound channels, the inbound
\* channel is drained (nothing is left in rabbitMQChan, which is what a
\* receive that reports the channel closed guarantees) and every record the
\* consumer put on it was offered to both sinks before the closure.
C13_CloseAfterInboundDrained ==
  closedChans # {} => (rabbitMQChan = <<>> /\ Accepted \subseteq Offered)

\* The device of a record: the consumer hands the distributor records of
\* two devices in turn.
DeviceOf(id) == IF id % 2 = 1 THEN "D1" ELSE "D2"

\* The records of device d in s, in the order of s.
OfDevice(s, d) == SelectSeq(s, LAMBDA id : DeviceOf(id) = d)

\* The records are numbered in the order in which the consumer handed them
\* to the distributor: a sequence keeps that order when its numbers grow.
InHandedOrder(s) == \A i, j \in 1..Len(s) : i < j => s[i] < s[j]

SubscriptionLost ==
  /\ consPc \in {"select", "process", "sleep", "consume", "returnedErr"}
  /\ msgsConn # 0
  /\ msgsConn \notin openConns

\* Consume holds a subscription on an open connection.
Subscribed ==
  /\ consPc \in {"select", "process"}
  /\ msgsConn \in openConns

\* C4: whenever the connection of the running consumer is lost and neither
\* Close nor cancellation occurs, the consume loop is eventually subscribed
\* on an open connection again (the broker comes back by fairness); and no
\* delivery is acknowledged twice.
C4_ConsumerRecovers ==
  /\ [](\A m \in Msgs : queue[m].acks <= 1)
  /\ [](SubscriptionLost => <>(Subscribed \/ mqCancelled \/ isClosing))

\* What Consume does with the delivery it holds: the step from processing
\* to the next select.
DeliveryHandled == consPc = "process" /\ consPc' # "process"

\* C11: for every delivery Consume takes, nothing is issued before
\* processMessage has returned, and then exactly one of Ack and Nack(requeue)
\* is issued; Ack is issued exactly when processMessage returned no error,
\* which is exactly when the record was put on the processing channel; on an
\* error (the send timeout on a full channel included) the delivery is
\* rejected, is ready for redelivery and the record is not forwarded.
C11_AckProtocol ==
  /\ [](consPc = "process" => lastErr = "none" /\ lastVerdict = "none")
  /\ [][DeliveryHandled =>
          /\ lastErr' # "none"
          /\ lastVerdict' \in {"ack", "nack"}
          /\ (lastVerdict' = "ack") <=> (lastErr' = "nil")
          /\ (lastErr' = "nil") <=>
                (mqSensorDataChan' = Append(mqSensorDataChan, curMsg))
          /\ (/\ queue[curMsg].body = ValidBody
              /\ Len(mqSensorDataChan) >= MqChanCap) => lastErr' = "timeout"
          /\ lastErr' # "nil" =>
                /\ lastVerdict' = "nack"
                /\ mqSensorDataChan' = mqSensorDataChan
                /\ forwarded' = forwarded
                /\ queue'[curMsg].state = "ready"
                /\ queue'[curMsg].acks = queue[curMsg].acks
          /\ (lastErr' = "nil" /\ curConn \in openConns) =>
                /\ queue'[curMsg].state = "acked"
                /\ curMsg \in forwarded']_vars

\* A delivery was rejected after the send to the full processing channel
\* timed out, and another delivery was forwarded and acknowledged.
C11_Witness ==
  /\ consPc = "select"
  /\ lastErr = "timeout"
  /\ lastVerdict = "nack"
  /\ queue[curMsg].state = "ready"
  /\ \E m \in Msgs : queue[m].state = "acked" /\ m \in forwarded

\* A body that cannot be decoded, or whose device identifier is empty.
Rejected(m) == ~queue[m].body.json \/ queue[m].body.device_id = ""

\* C12: a delivery whose body cannot be decoded or whose device identifier
\* is empty is never put on the processing channel and never acknowledged;
\* every delivery of it is rejected with requeue, and it stays in the queue:
\* whenever it is ready and the subscription is open it can be delivered
\* again, with no bound on the number of redeliveries.
C12_MalformedRejected ==
  /\ [](\A m \in Msgs : Rejected(m) =>
          /\ m \notin forwarded
          /\ m \notin Range(mqSensorDataChan)
          /\ queue[m].acks = 0
          /\ queue[m].state \in {"ready", "unacked"}
          /\ (/\ queue[m].state = "ready"
              /\ consPc = "select"
              /\ msgsConn \in openConns) => ENABLED ConsumeDelivery(m))
  /\ [][(DeliveryHandled /\ Rejected(curMsg)) =>
          /\ lastVerdict' = "nack"
          /\ lastErr' \in {"unmarshal", "missing device_id"}
          /\ queue'[curMsg].state = "ready"]_vars

\* A message without a device identifier was rejected, delivered again and
\* rejected again, while the queue also holds an undecodable message.
C12_Witness ==
  /\ consPc = "select"
  /\ redelivery
  /\ queue[curMsg].body = NoDeviceBody
  /\ lastErr = "missing device_id"
  /\ lastVerdict = "nack"
  /\ \E m \in Msgs : queue[m].body = MalformedBody

\* The handleReconnect goroutines there can be: the first one and one more
\* for every reconnect.
HandlerIds == 1..(MaxLosses + 1)

\* Handler h is in its reconnect loop.
Reconnecting(h) ==
  h \in DOMAIN handlers /\ handlers[h].pc \in {"connect", "backoff"}

\* Handler h has reconnected and is about to signal Consume.
Signalling(h) == h \in DOMAIN handlers /\ handlers[h].pc = "signal"

\* C18: a handler in its reconnect loop leaves it only by a successful
\* connect, however many attempts fail; with a broker that comes back it
\* does reconnect; and after its success the signal reaches the consume
\* loop (the handler's send on r.reconnect completes), which subscribes
\* again, unless the service is shutting down.
C18_ReconnectUnbounded ==
  /\ [][\A h \in DOMAIN handlers :
          handlers[h].pc \in {"connect", "backoff"}
            => handlers'[h].pc \in {"connect", "backoff", "signal"}]_vars
  /\ \A h \in HandlerIds : Reconnecting(h) ~> Signalling(h)
  /\ \A h \in HandlerIds :
       Signalling(h) ~> (\/ ~Signalling(h) /\ Subscribed
                         \/ mqCancelled
                         \/ isClosing)

\* C20 for the consumer's fields: no two tasks are ever about to access the
\* same field with one of them writing it: Consume does not read r.channel
\* when a handleReconnect goroutine is about to store a new channel in it,
\* and no handleReconnect goroutine reads r.isClosing (or r.conn) when Close
\* is about to set the flag and close the connection.
C20_ConsumerFieldsConfined ==
  /\ ~(/\ ENABLED ConsumeSubscribe
       /\ \E h \in DOMAIN handlers : ENABLED connect(h))
  /\ ~(/\ ENABLED Close
       /\ \E h \in DOMAIN handlers : ENABLED NotifyClose(h))

\* C21 for the consumer task: Consume has returned only after cancellation;
\* no connection loss, rejected delivery or full processing channel ends
\* it.
C21_ErrorsContained ==
  consPc \in {"returnedErr", "stopped"} => mqCancelled

\* C22: once Close has been called, a handleReconnect goroutine that gets
\* the close notification does not enter its reconnect loop, and no new
\* connection to the broker is established, also when a reconnect loop was
\* already running at the time of the call.
C22_CloseIsNotALoss ==
  [][isClosing =>
       /\ connCount' = connCount
       /\ openConns' \subseteq openConns
       /\ \A h \in DOMAIN handlers :
            handlers[h].pc = "wait" => handlers'[h].pc \in {"wait", "done"}]_vars

\* C24: alert throttling. A SendAnomalyAlert call for a device is suppressed
\* (nothing sent, no error) exactly when an alert of the same kind (flame or
\* non-flame) was sent successfully for the same device less than 15 seconds
\* before; alerts of the other kind, alerts of other devices and failed
\* sends start no cooldown for it.
InCooldown(d, flame) ==
  /\ tgSent[d][flame] # NoAlert
  /\ tgNow - tgSent[d][flame] < AlertCooldown

C24_AlertThrottling ==
  [][tgCalls' # tgCalls =>
       (tgLast'.result = "throttled"
          <=> InCooldown(tgLast'.device, tgLast'.flame))]_vars

\* A non-flame alert of D1 was suppressed although a flame alert of D1 went
\* out during the non-flame cooldown.
C24_Witness ==
  /\ tgLast = [device |-> "D1", flame |-> FALSE, result |-> "throttled"]
  /\ tgSent["D1"][TRUE] # NoAlert
  /\ tgSent["D1"][TRUE] > tgSent["D1"][FALSE]


\* C25: the buffer lock is released before the write. flushBuffer's critical
\* section ends before the first WriteBatch call, and while a write sequence
\* of a size or timer flush is in progress (a WriteBatch call or a back-off
\* sleep) a record waiting in the input channel can be appended to the
\* buffer: the slow write blocks no append.
WriteInProgress == flights # <<>> /\ trigger \in {"size", "timer"}

C25_AppendsNotBlockedByWrite ==
  (WriteInProgress /\ sensorDataChan # <<>>) => ENABLED StartReceive


\* C26: the timer is reset after every flush. When Start returns to its
\* select after a size or timer flush the flush timer is armed for a full
\* interval from that moment with nothing left in its channel, and a timer
\* flush never starts less than one interval after the end of the flush
\* before it, also when the size branch found the timer already fired.
C26_TimerResetAfterFlush ==
  [][/\ (bwPc = "after" /\ bwPc' = "select") =>
          /\ timerActive'
          /\ ~timerC'
          /\ timerDeadline' = now + batchTimeout
     /\ (bwPc = "select" /\ bwPc' = "flush" /\ trigger' = "timer"
           /\ timerHist.flushEnd # NotDone) =>
          now >= timerHist.flushEnd + batchTimeout]_vars

\* A timer flush starts after a size flush whose Stop found the timer
\* already fired.
C26_Witness ==
  /\ bwPc = "flush"
  /\ trigger = "timer"
  /\ timerHist.drained
  /\ flushLog # <<>>
  /\ flushLog[Len(flushLog)].trigger = "size"


\* C27: WriteBatch argument bounds. Every batch handed to WriteBatch has
\* between 1 and maxBatchSize records, and a timer firing, a shutdown or a
\* closed input channel that finds the buffer empty starts no write and
\* leaves the buffer as it is.
C27_WriteBatchArgument ==
  [][/\ \A f \in DOMAIN flights' :
          Len(flights'[f].batch) \in 1..maxBatchSize
     /\ writeLog' # writeLog =>
          Len(writeLog'[Len(writeLog')].batch) \in 1..maxBatchSize
     /\ (buffer = <<>> /\ bwPc = "flush") =>
          UNCHANGED <<buffer, flights, writeLog, flushLog>>
     /\ (buffer = <<>> /\ bwPc = "select" /\ timerC /\ ~timerC'
           /\ sensorDataChan' = sensorDataChan) =>
          UNCHANGED <<buffer, flights, writeLog, flushLog>>]_vars

\* Start has returned after a shutdown or a closed input channel that found
\* the buffer empty, earlier records having been written by a size or timer
\* flush.
C27_Witness ==
  /\ bwPc = "done"
  /\ writeLog # <<>>
  /\ \A i \in 1..Len(flushLog) : flushLog[i].trigger \in {"size", "timer"}


\* C28: every buffered record is eventually flushed. While Start waits in
\* its select with a non-empty buffer the flush timer has fired or is due
\* within one flush interval of the arrival of the oldest buffered record,
\* and a non-empty buffer whose timer is due within the clock's range is
\* emptied into a batch for WriteBatch, whether or not more records arrive
\* and without any cancellation.
BufferedSince ==
  LET i == CHOOSE k \in 1..Len(recvd) : recvd[k].id = Head(buffer)
  IN recvd[i].at

TimerDue == timerC \/ (timerActive /\ timerDeadline <= MaxTime)

C28_BufferedEventuallyFlushed ==
  /\ [](bwPc = "select" /\ buffer # <<>> =>
          \/ timerC
          \/ timerActive /\ timerDeadline <= BufferedSince + batchTimeout)
  /\ (buffer # <<>> /\ TimerDue) ~> (buffer = <<>>)

\* A timer flush has taken a buffer that never reached maxBatchSize, with no
\* cancellation and the input channel open.
C28_Witness ==
  /\ ~cancelled
  /\ ~chanClosed
  /\ flushLog # <<>>
  /\ flushLog[Len(flushLog)].trigger = "timer"
  /\ Len(flushLog[Len(flushLog)].batch) < maxBatchSize
  /\ buffer = <<>>


\* C29: retries carry identical content. The batch of a write sequence is
\* what the buffer held when flushBuffer took it, every WriteBatch call of
\* the sequence, first attempt and retries, is passed that same sequence of
\* records, and no step changes the batch of a write in progress.
C29_RetriesIdentical ==
  [][/\ \A f \in DOMAIN flights' :
          flights'[f].batch = flushLog'[f].batch
     /\ \A f \in DOMAIN flights \cap DOMAIN flights' :
          flights'[f].batch = flights[f].batch
     /\ \A i \in 1..Len(writeLog') :
          writeLog'[i].batch = flushLog'[writeLog'[i].fid].batch
     /\ \A i, j \in 1..Len(writeLog') :
          writeLog'[i].fid = writeLog'[j].fid =>
            writeLog'[i].batch = writeLog'[j].batch]_vars

\* A batch has been passed to WriteBatch a second time, and a record has been
\* appended to the buffer since.
C29_Witness ==
  /\ \E i \in 1..Len(writeLog) : writeLog[i].attempt >= 2
  /\ buffer # <<>>


\* C30: linear back-off. After the failed attempt i of a batch, i below the
\* number of attempts, flushBuffer sleeps and attempt i+1 starts no earlier
\* than i base delays after the failure; flushBuffer sleeps at no other
\* moment, and after a success or the last failed attempt it returns at once.
LastWrite == writeLog'[Len(writeLog')]

SinceLastSeen(d) == hcNow - devices[d].LastSeen

C31_NoFalseTimeout ==
  [][\A d \in DOMAIN devices :
       /\ (devices'[d].Status = DeviceTimeout
             /\ devices[d].Status # DeviceTimeout) =>
            SinceLastSeen(d) > hcTimeout
       /\ (Len(events'[d]) > Len(events[d])
             /\ events'[d][Len(events'[d])].kind = "Timeout") =>
            /\ SinceLastSeen(d) > hcTimeout
            /\ events'[d][Len(events'[d])].down > hcTimeout
       /\ devices[d].Status = DeviceTimeout => SinceLastSeen(d) > hcTimeout
       /\ (hbCount'[d] # hbCount[d] /\ SinceLastSeen(d) <= hcTimeout) =>
            /\ devices[d].Status = DeviceHealthy
            /\ events'[d] = events[d]]_vars

\* A device was scanned exactly one threshold after its second heartbeat and
\* has produced no event.
C31_Witness ==
  /\ "D1" \in DOMAIN devices
  /\ hbCount["D1"] >= 2
  /\ events["D1"] = <<>>
  /\ devices["D1"].Status = DeviceHealthy
  /\ reachedScan["D1"] # NoScan
  /\ exceededScan["D1"] = NoScan


\* C32: the time of timeout is set only while the device is timed out. In
\* every state a healthy device has no TimeoutAt recorded (unset, or cleared
\* by the heartbeat that recovered it), and a timed-out device has the time
\* of the scan that marked it.
C32_TimeoutAtOnlyWhileTimedOut ==
  \A d \in DOMAIN devices :
    /\ devices[d].Status = DeviceHealthy => devices[d].TimeoutAt = ZeroTime
    /\ devices[d].Status = DeviceTimeout =>
         /\ events[d] # <<>>
         /\ events[d][Len(events[d])].kind = "Timeout"
         /\ devices[d].TimeoutAt = events[d][Len(events[d])].at


\* C33: event emission is fire-and-forget. While an alert call of the health
\* monitor is outstanding, a heartbeat of any device can be handled and a
\* scan can run: the registry lock is not held across the emission.
C33_EmissionDoesNotBlock ==
  hcMu = "Lock" =>
    /\ (\E d \in Devices : hbCount[d] < MaxHeartbeats) =>
         ENABLED HeartbeatHandled
    /\ ENABLED ScanRuns


\* C34: record conservation in the batch writer. The batches taken by
\* flushBuffer, in flush order, followed by the buffer are the records
\* received from the input channel, in order and without repetition; every
\* batch taken is passed to WriteBatch in a first attempt; and Start returns
\* with an empty buffer.
RECURSIVE FlushedUpTo(_)
FlushedUpTo(n) ==
  IF n = 0 THEN <<>> ELSE FlushedUpTo(n - 1) \o flushLog[n].batch

FirstAttemptMade(f) ==
  \/ f \in DOMAIN flights /\ flights[f].attempt = 1
                          /\ flights[f].phase = "write"
  \/ \E i \in 1..Len(writeLog) :
       /\ writeLog[i].fid = f
       /\ writeLog[i].attempt = 1
       /\ writeLog[i].batch = flushLog[f].batch

C34_RecordConservation ==
  /\ FlushedUpTo(Len(flushLog)) \o buffer = Ids(recvd)
  /\ \A i, j \in 1..Len(recvd) : i # j => recvd[i].id # recvd[j].id
  /\ \A f \in 1..Len(flushLog) : FirstAttemptMade(f)
  /\ bwPc = "done" => buffer = <<>>

\* A timer flush and a size flush have both taken records.
C34_Witness ==
  /\ Len(flushLog) >= 2
  /\ \E i, j \in 1..Len(flushLog) :
       flushLog[i].trigger = "timer" /\ flushLog[j].trigger = "size"
  /\ Len(recvd) = MaxRecords


\* C35: graceful shutdown loses no accepted record. When the batch writer
\* reports its shutdown as complete, every record that was on its input
\* channel or in its buffer when cancel() was called has been taken into a
\* flush.
C35_ShutdownFlushesAccepted ==
  (bwPc = "done" /\ trigger = "shutdown" /\ atCancel # NotDone) =>
    \A id \in 1..atCancel : id \in FlushedIds


\* C36: single reconnect handler. At any time at most one handleReconnect
\* goroutine waits for the close notification of the current connection
\* r.conn, whatever the number of connection losses and reconnections.
Watching(c) ==
  {h \in DOMAIN handlers : handlers[h].pc = "wait" /\ handlers[h].watch = c}

C36_SingleReconnectHandler == Cardinality(Watching(rConn)) <= 1


\* C37: the outbound channels are closed safely. businessLogicChan and
\* batchWriterChan are closed once, together, by the distributor's step that
\* ends it; the distributor never panics on a closed channel; and once the
\* channels are closed nothing is sent on them any more.
C37_OutboundClosedSafely ==
  [][/\ distPc' # "panic"
     /\ closedChans' # closedChans =>
          /\ closedChans = {}
          /\ closedChans' = {"businessLogicChan", "batchWriterChan"}
          /\ distPc = "select"
          /\ distPc' = "done"
     /\ closedChans # {} =>
          /\ closedChans' = closedChans
          /\ distPc' = "done"
          /\ Len(businessLogicChan') <= Len(businessLogicChan)
          /\ Len(batchWriterChan') <= Len(batchWriterChan)]_vars

\* The channels were closed on cancellation with records still waiting in
\* the inbound channel and in an outbound channel.
C37_Witness ==
  /\ closedChans = {"businessLogicChan", "batchWriterChan"}
  /\ distPc = "done"
  /\ rabbitMQChan # <<>>
  /\ batchWriterChan # <<>>


\* C38: Timeout and Recovered alternate. The events emitted for a device are
\* Timeout, Recovered, Timeout, ... in strict alternation starting with a
\* Timeout: no Recovered without an unmatched Timeout before it, no two
\* Timeouts without a Recovered between them.
C38_EventsAlternate ==
  \A d \in Devices : \A i \in 1..Len(events[d]) :
    events[d][i].kind = IF i % 2 = 1 THEN "Timeout" ELSE "Recovered"

\* A device has timed out, recovered and timed out again.
C38_Witness ==
  \E d \in Devices :
    /\ Len(events[d]) >= 3
    /\ devices[d].Status = DeviceTimeout


\* C39: a health transition commits even when the emission fails. Whatever
\* the alert call returns, the step that makes it leaves the device in its
\* new status (TimedOut with the time of the scan, or Healthy with the new
\* last-seen and heartbeat), and no event is emitted for a device whose
\* status does not change: a failed event is not emitted again.
C39_TransitionCommits ==
  [][\A d \in DOMAIN devices :
       /\ Len(events'[d]) > Len(events[d]) =>
            LET e == events'[d][Len(events'[d])]
            IN /\ Len(events'[d]) = Len(events[d]) + 1
               /\ e.kind = "Timeout" =>
                    /\ devices[d].Status = DeviceHealthy
                    /\ devices'[d].Status = DeviceTimeout
                    /\ devices'[d].TimeoutAt = hcNow
                    /\ devices'[d].LastSeen = devices[d].LastSeen
               /\ e.kind = "Recovered" =>
                    /\ devices[d].Status = DeviceTimeout
                    /\ devices'[d].Status = DeviceHealthy
                    /\ devices'[d].LastSeen = hcNow
                    /\ devices'[d].LastHealthCheck = e.hb
       /\ devices'[d].Status = devices[d].Status => events'[d] = events[d]
     ]_vars

\* The Timeout alert of a device failed, and so did the Recovered alert that
\* followed it.
C39_Witness ==
  \E d \in Devices :
    /\ Len(events[d]) >= 2
    /\ ~events[d][1].ok
    /\ ~events[d][2].ok
    /\ devices[d].Status = DeviceHealthy


\* C40: devices are tracked only after a heartbeat. A device is in the
\* registry exactly when it has sent a heartbeat; every tracked device has
\* its most recent heartbeat and a last-seen time; every Timeout event
\* carries the most recent heartbeat of its device, so a device without a
\* heartbeat has no event; and a heartbeat of one device leaves the record
\* of every other device unchanged.
C40_TrackedAfterHeartbeat ==
  [][/\ \A d \in Devices :
          /\ d \in DOMAIN devices' <=> hbCount'[d] >= 1
          /\ d \notin DOMAIN devices' => events'[d] = <<>>
          /\ d \in DOMAIN devices' =>
               /\ devices'[d].LastHealthCheck # NoHeartbeat
               /\ devices'[d].LastHealthCheck = hbCount'[d]
               /\ devices'[d].LastSeen # ZeroTime
          /\ (Len(events'[d]) > Len(events[d])
                /\ events'[d][Len(events'[d])].kind = "Timeout") =>
               /\ events'[d][Len(events'[d])].hb # NoHeartbeat
               /\ events'[d][Len(events'[d])].hb = hbCount[d]
     /\ \A d \in Devices :
          hbCount'[d] # hbCount[d] =>
            /\ DOMAIN devices' = DOMAIN devices \cup {d}
            /\ \A o \in DOMAIN devices \ {d} : devices'[o] = devices[o]
            /\ \A o \in Devices \ {d} : events'[o] = events[o]]_vars

\* A Timeout event of D1 carries its second heartbeat while D2 is tracked
\* and healthy.
C40_Witness ==
  /\ events["D1"] # <<>>
  /\ events["D1"][Len(events["D1"])].kind = "Timeout"
  /\ events["D1"][Len(events["D1"])].hb = 2
  /\ "D2" \in DOMAIN devices
  /\ devices["D2"].Status = DeviceHealthy

====
